---------------------------- MODULE Spec2Model ----------------------------
(***************************************************************************)
(* A model of the acoustic analysis and feedback engine of tonecoach:      *)
(*   analysis/speech_analyzer.py     SpeechAnalyzer                        *)
(*   analysis/feedback_generator.py  FeedbackGenerator                     *)
(*   ui/pages.py                     display_practice_page (the caller)    *)
(*                                                                         *)
(* Numbers.  The code computes in binary floating point; the model         *)
(* computes the same expressions exactly, in fixed point:                  *)
(*   pitch variability        tenths of a Hz          (15 Hz   = 150)      *)
(*   energy variability       thousandths             (0.03    = 30)       *)
(*   speech rate              hundredths of syl/sec   (2.0     = 200)      *)
(*   pause / emphasis ratio   hundredths              (0.15    = 15)       *)
(*   emotion confidence       hundredths              (0.8     = 80)       *)
(*   a sub-score in [0,1]     1/3000                  (1.0     = 3000)     *)
(*   an expressiveness score  1/3000 of a point       (100     = 300000)   *)
(* 3000 is the least common multiple of the divisors of the sub-scores at  *)
(* these resolutions, so every value below is an exact integer.            *)
(***************************************************************************)
EXTENDS Integers, Sequences, FiniteSets, TLC

VARIABLES
    sc_pc,      \* calculate_expressiveness_score: "call" | "return"
    sc_args,    \* its arguments
    sc_ret,     \* its return value (meaningful when sc_pc = "return")
    fb_pc,      \* FeedbackGenerator: "call" | "return"
    fb_op,      \* the method called: "generate" | "generate_comparative"
    fb_user,    \* analysis_results / user_analysis (a dict)
    fb_bench,   \* benchmark_analysis (None or a dict)
    fb_target,  \* target_text (None or a str)
    fb_report,  \* the dict returned (meaningful when fb_pc = "return")
    an_pc,      \* SpeechAnalyzer.analyze: the step the call has reached
    an_calls,   \* how many calls of analyze were made
    an_ret,     \* how the call ended: "dict" | "None" | "raised"
    audio_file, \* the kind of object passed as audio_file
    temp_path,  \* temp_file.name of the current call
    tmp_files,  \* the temporary files that exist on disk
    an_transcription,  \* None or the str transcribe_audio returned
    model_loaded,   \* self.processor and self.model are loaded
    classifier_loaded,  \* self.emotion_classifier is loaded
    an_env,     \* what the call meets: the audio in the input and which of
                \* the libraries and models raise
    an_locals,  \* the local variables of analyze computed so far (a dict)
    an_results, \* None or the dict analyze returned
    st_shown,   \* the Streamlit messages shown: <<level, text>>
    tx_pc,      \* the text functions: "call" | "return"
    tx_op,      \* the function called
    tx_transcription,   \* transcription (a str)
    tx_target_text,     \* target_text (a str)
    tx_result,  \* what the function returned
    pg_pc,      \* display_practice_page: the step the handler has reached
    pg_exercise,    \* the exercise: its benchmark audio and its text
    pg_analysis,    \* analysis_results (None or a dict)
    pg_benchmark,   \* benchmark_analysis (None or a dict)
    fr_energy,  \* the pause and emphasis detection: the energy series
    fr_measured,    \* None or the frames and ratios computed from it
    cc_calls,   \* concurrent sessions: per session its step, its analyzer,
                \* the recording, temp_path, locals, outcome of analyze and
                \* the files the call touched
    cc_disk,    \* the temporary files on disk and what each holds
    cc_named,   \* the names tempfile has handed out
    cc_class,   \* SpeechAnalyzer.processor / model / emotion_classifier
    cc_cache    \* what st.cache_resource holds for the two loaders

sc_vars == <<sc_pc, sc_args, sc_ret>>
fb_vars == <<fb_pc, fb_op, fb_user, fb_bench, fb_target, fb_report>>
an_vars == <<an_pc, an_calls, an_ret, audio_file, temp_path, tmp_files,
             an_transcription, model_loaded, classifier_loaded, an_env,
             an_locals, an_results, st_shown>>
tx_vars == <<tx_pc, tx_op, tx_transcription, tx_target_text, tx_result>>
pg_vars == <<pg_pc, pg_exercise, pg_analysis, pg_benchmark>>
fr_vars == <<fr_energy, fr_measured>>
cc_vars == <<cc_calls, cc_disk, cc_named, cc_class, cc_cache>>
vars == <<sc_vars, fb_vars, an_vars, tx_vars, pg_vars, fr_vars, cc_vars>>

\* the state of a component that takes no part in a specification
ScoreIdle == sc_pc = "idle" /\ sc_args = <<>> /\ sc_ret = 0
FeedbackIdle ==
    /\ fb_pc = "idle" /\ fb_op = "none" /\ fb_user = <<>> /\ fb_bench = <<>>
    /\ fb_target = <<>> /\ fb_report = <<>>
AnalyzeIdle ==
    /\ an_pc = "idle" /\ an_calls = 0 /\ an_ret = "none"
    /\ audio_file = "none" /\ temp_path = 0 /\ tmp_files = {}
    /\ an_transcription = <<>> /\ model_loaded = FALSE
    /\ classifier_loaded = FALSE /\ an_env = <<>> /\ an_locals = <<>>
    /\ an_results = <<>> /\ st_shown = {}
TextIdle ==
    /\ tx_pc = "idle" /\ tx_op = "none" /\ tx_transcription = <<>>
    /\ tx_target_text = <<>> /\ tx_result = <<>>
PageIdle ==
    /\ pg_pc = "idle" /\ pg_exercise = <<>> /\ pg_analysis = <<>>
    /\ pg_benchmark = <<>>
FramesIdle == fr_energy = <<>> /\ fr_measured = <<>>
ConcurrentIdle ==
    /\ cc_calls = <<>> /\ cc_disk = <<>> /\ cc_named = {} /\ cc_class = <<>>
    /\ cc_cache = <<>>

Min(a, b) == IF a <= b THEN a ELSE b
Max(a, b) == IF a >= b THEN a ELSE b
Abs(a) == IF a >= 0 THEN a ELSE -a

\* the element of a singleton set.  Only({e(v) : v \in {x}}) is e computed
\* for the value of x, as after an assignment v = x: x is evaluated once
Only(S) == CHOOSE r \in S : TRUE

(***************************************************************************)
(* Text.  A Python str is a sequence of one-character strings, so that     *)
(* lower(), the regular expressions of _normalize_text, split() and        *)
(* difflib.SequenceMatcher are computed character by character.            *)
(***************************************************************************)

\* the failure sentinels transcribe_audio returns
TranscriptionUnavailable ==
    <<"T", "r", "a", "n", "s", "c", "r", "i", "p", "t", "i", "o", "n", " ",
      "u", "n", "a", "v", "a", "i", "l", "a", "b", "l", "e", " ", "(", "m",
      "o", "d", "e", "l", " ", "n", "o", "t", " ", "l", "o", "a", "d", "e",
      "d", ")">>
TranscriptionFailed ==
    <<"T", "r", "a", "n", "s", "c", "r", "i", "p", "t", "i", "o", "n", " ",
      "f", "a", "i", "l", "e", "d">>

UpperCase ==
    <<"A", "B", "C", "D", "E", "F", "G", "H", "I", "J", "K", "L", "M",
      "N", "O", "P", "Q", "R", "S", "T", "U", "V", "W", "X", "Y", "Z">>
LowerCase ==
    <<"a", "b", "c", "d", "e", "f", "g", "h", "i", "j", "k", "l", "m",
      "n", "o", "p", "q", "r", "s", "t", "u", "v", "w", "x", "y", "z">>
Digits == {"0", "1", "2", "3", "4", "5", "6", "7", "8", "9"}

Range(f) == {f[i] : i \in DOMAIN f}

\* str.lower(), one character
lower_char(c) ==
    IF c \in Range(UpperCase)
    THEN LowerCase[CHOOSE i \in DOMAIN UpperCase : UpperCase[i] = c]
    ELSE c

\* str.lower()
lower(text) == [i \in 1..Len(text) |-> lower_char(text[i])]

\* the regular expression classes \w and \s (on ASCII text)
IsWordChar(c) == c \in Range(UpperCase) \cup Range(LowerCase) \cup Digits \cup {"_"}
IsSpaceChar(c) == c \in {" ", "\t", "\n"}

\* re.sub(r'[^\w\s]', '', text)
sub_non_word_non_space(text) ==
    SelectSeq(text, LAMBDA c : IsWordChar(c) \/ IsSpaceChar(c))

\* re.sub(r'\s+', ' ', text): each maximal whitespace run becomes one space
RECURSIVE sub_space_runs(_)
sub_space_runs(text) ==
    IF text = <<>> THEN <<>>
    ELSE IF IsSpaceChar(Head(text))
         THEN IF Len(text) > 1 /\ IsSpaceChar(text[2])
              THEN sub_space_runs(Tail(text))
              ELSE <<" ">> \o sub_space_runs(Tail(text))
         ELSE <<Head(text)>> \o sub_space_runs(Tail(text))

\* str.strip()
RECURSIVE lstrip(_)
lstrip(text) ==
    IF text # <<>> /\ IsSpaceChar(Head(text)) THEN lstrip(Tail(text)) ELSE text
RECURSIVE rstrip(_)
rstrip(text) ==
    IF text # <<>> /\ IsSpaceChar(text[Len(text)])
    THEN rstrip(SubSeq(text, 1, Len(text) - 1))
    ELSE text
strip(text) == rstrip(lstrip(text))

\* FeedbackGenerator._normalize_text
_normalize_text_keep_case(text) ==
    Only({strip(spaced) :
              spaced \in {sub_space_runs(cleaned) :
                              cleaned \in {sub_non_word_non_space(text)}}})
_normalize_text(text) ==
    Only({strip(spaced) :
              spaced \in {sub_space_runs(cleaned) :
                              cleaned \in {sub_non_word_non_space(lowered) :
                                               lowered \in {lower(text)}}}})

\* str.split(): the maximal runs of non-whitespace characters, in order
RECURSIVE split(_)
split(text) ==
    LET word_end(t) ==
            IF \E i \in 1..Len(t) : IsSpaceChar(t[i])
            THEN (CHOOSE i \in 1..Len(t) :
                      /\ IsSpaceChar(t[i])
                      /\ \A k \in 1..(i - 1) : ~IsSpaceChar(t[k])) - 1
            ELSE Len(t)
        words(t) ==
            IF t = <<>> THEN <<>>
            ELSE Only({<<SubSeq(t, 1, n)>>
                       \o Only({split(rest) : rest \in {SubSeq(t, n + 1, Len(t))}}) :
                           n \in {word_end(t)}})
    IN  Only({words(t) : t \in {lstrip(text)}})

(***************************************************************************)
(* difflib.SequenceMatcher(None, a, b).ratio().  No element is junk        *)
(* (isjunk is None, and the automatic junk heuristic needs len(b) >= 200). *)
(* Indices are 1-based and the windows alo..ahi, blo..bhi inclusive.       *)
(***************************************************************************)

\* the length of the common run of a from i and b from j inside the window
RECURSIVE RunLen(_, _, _, _, _, _)
RunLen(a, b, i, j, ahi, bhi) ==
    IF i <= ahi /\ j <= bhi /\ a[i] = b[j]
    THEN 1 + RunLen(a, b, i + 1, j + 1, ahi, bhi)
    ELSE 0

\* find_longest_match: <<i, j, k>> with a[i..i+k-1] = b[j..j+k-1], k the
\* largest; of the longest blocks the one starting earliest in a, and of
\* those the one starting earliest in b
find_longest_match(a, b, alo, ahi, blo, bhi) ==
    LET pairs == (alo..ahi) \X (blo..bhi)
        size(p) == RunLen(a, b, p[1], p[2], ahi, bhi)
        sized == {<<p[1], p[2], size(p)>> : p \in pairs}
        best(blocks) ==
            CHOOSE p \in blocks :
                \A q \in blocks :
                    \/ q[3] < p[3]
                    \/ /\ q[3] = p[3]
                       /\ \/ p[1] < q[1]
                          \/ (p[1] = q[1] /\ p[2] <= q[2])
    IN  Only({best(blocks) : blocks \in {sized}})

\* get_matching_blocks, summed: the longest match, then recursively the
\* pieces to its left and to its right
RECURSIVE matching_size(_, _, _, _, _, _)
matching_size(a, b, alo, ahi, blo, bhi) ==
    IF alo > ahi \/ blo > bhi THEN 0
    ELSE LET rest(m) ==
                 IF m[3] = 0 THEN 0
                 ELSE m[3]
                      + matching_size(a, b, alo, m[1] - 1, blo, m[2] - 1)
                      + matching_size(a, b, m[1] + m[3], ahi, m[2] + m[3], bhi)
         IN  Only({rest(m) : m \in {find_longest_match(a, b, alo, ahi, blo, bhi)}})

\* ratio() = 2.0 * matches / (len(a) + len(b)), 1.0 when both are empty;
\* returned as the pair <<numerator, denominator>>
ratio(a, b) ==
    IF Len(a) + Len(b) = 0 THEN <<1, 1>>
    ELSE <<2 * matching_size(a, b, 1, Len(a), 1, Len(b)), Len(a) + Len(b)>>


(***************************************************************************)
(* SpeechAnalyzer.calculate_expressiveness_score                           *)
(***************************************************************************)

\* the float 1.0 as a sub-score, and one point of the 0-100 score
One == 3000

\* pitch_score = min(1.0, pitch_var / 50.0)
pitch_score_peaked(pitch_var) == Max(0, One - 6 * Abs(pitch_var - 500))
pitch_score(pitch_var) == Min(One, 6 * pitch_var)

\* energy_score = min(1.0, energy_var / 0.2)
energy_score(energy_var) == Min(One, 15 * energy_var)

\* rate_score: speech_rate / 2.0 below 2.0, max(0, 1 - (rate - 5.0) / 3.0)
\* above 5.0, 1 - |rate - 3.5| / 1.5 in between (both ends included)
rate_score_peak3(speech_rate) ==
    IF speech_rate < 200 THEN 15 * speech_rate
    ELSE IF speech_rate > 500 THEN Max(0, One - 10 * (speech_rate - 500))
    ELSE One - 20 * Abs(speech_rate - 300)
rate_score(speech_rate) ==
    IF speech_rate < 200 THEN 15 * speech_rate
    ELSE IF speech_rate > 500 THEN Max(0, One - 10 * (speech_rate - 500))
    ELSE One - 20 * Abs(speech_rate - 350)

\* pause_score: pause_ratio / 0.15 below 0.15, max(0, 1 - (ratio - 0.3) / 0.2)
\* above 0.3, 1.0 in between
pause_score(pause_ratio) ==
    IF pause_ratio < 15 THEN 200 * pause_ratio
    ELSE IF pause_ratio > 30 THEN Max(0, One - 150 * (pause_ratio - 30))
    ELSE One

\* emotion_score = emotion_confidence
emotion_score(emotion_confidence) == 30 * emotion_confidence

\* the weights, in hundredths
W_pitch_variability == 35
W_energy_variability == 25
W_speech_rate == 15
W_pause_ratio == 15
W_emotion_confidence == 10

\* weighted_score * 100: a weight in hundredths times a sub-score in 1/3000
\* is the contribution in 1/3000 of a point
weighted_score(pitch_var, energy_var, speech_rate, pause_ratio, emotion_confidence) ==
    W_pitch_variability * pitch_score(pitch_var)
    + W_energy_variability * energy_score(energy_var)
    + W_speech_rate * rate_score(speech_rate)
    + W_pause_ratio * pause_score(pause_ratio)
    + W_emotion_confidence * emotion_score(emotion_confidence)

\* return min(100, max(0, weighted_score * 100))
calculate_unclamped(pitch_var, energy_var, speech_rate, pause_ratio, emotion_confidence) ==
    weighted_score(pitch_var, energy_var, speech_rate, pause_ratio, emotion_confidence)
calculate_expressiveness_score(pitch_var, energy_var, speech_rate, pause_ratio, emotion_confidence) ==
    Min(100 * One,
        Max(0, weighted_score(pitch_var, energy_var, speech_rate, pause_ratio,
                              emotion_confidence)))

(***************************************************************************)
(* The scorer called on its own.  The arguments range over the break       *)
(* points of the sub-scores, their neighbours one resolution step away,    *)
(* and values outside the range analyze() produces (a negative             *)
(* variability, a confidence above 1): the method accepts any numbers.     *)
(***************************************************************************)

\* the argument grids are extended by this many coarse steps past their
\* largest break point
MaxGridSteps == 2

PitchArgs == {-50, 0, 250, 450, 499, 500, 501}
             \cup {500 + 250 * k : k \in 1..MaxGridSteps}
EnergyArgs == {-20, 0, 100, 120, 199, 200, 201}
              \cup {200 + 100 * k : k \in 1..MaxGridSteps}
RateArgs == {0, 1, 100, 199, 200, 201, 349, 350, 351, 360, 499, 500, 501, 800}
            \cup {800 + 100 * k : k \in 1..MaxGridSteps}
PauseArgs == {0, 1, 14, 15, 16, 18, 30, 31, 50}
             \cup {50 + 25 * k : k \in 1..MaxGridSteps}
ConfidenceArgs == {-10, 0, 50, 80, 100, 150}

ScoreArgs ==
    [pitch_var : PitchArgs, energy_var : EnergyArgs, speech_rate : RateArgs,
     pause_ratio : PauseArgs, emotion_confidence : ConfidenceArgs]

ScoreInit ==
    /\ sc_pc = "call"
    /\ sc_args \in ScoreArgs
    /\ sc_ret = 0
    /\ FeedbackIdle
    /\ AnalyzeIdle
    /\ TextIdle
    /\ PageIdle
    /\ FramesIdle
    /\ ConcurrentIdle

ScoreCall ==
    /\ sc_pc = "call"
    /\ sc_ret' = calculate_expressiveness_score(
                     sc_args.pitch_var, sc_args.energy_var, sc_args.speech_rate,
                     sc_args.pause_ratio, sc_args.emotion_confidence)
    /\ sc_pc' = "return"
    /\ UNCHANGED <<sc_args, fb_vars, an_vars, tx_vars, pg_vars, fr_vars, cc_vars>>

ScoreNext == ScoreCall

SpecScore == ScoreInit /\ [][ScoreNext]_vars

(***************************************************************************)
(* Claims about the scorer (checked under SpecScore)                       *)
(***************************************************************************)

ScoreReturned == sc_pc = "return"

\* C2: for every combination of pitch variability, energy variability,
\* speech rate, pause ratio and emotion confidence, the value
\* calculate_expressiveness_score returns lies in the closed range [0, 100].
C2_ScoreInRange ==
    ScoreReturned => (0 <= sc_ret /\ sc_ret <= 100 * One)

\* C2's case: a call whose weighted sum leaves [0, 100] on either side
C2_Witness ==
    /\ ScoreReturned
    /\ sc_args.emotion_confidence > 100
    /\ weighted_score(sc_args.pitch_var, sc_args.energy_var, sc_args.speech_rate,
                      sc_args.pause_ratio, sc_args.emotion_confidence) > 100 * One
    /\ sc_ret = 100 * One

\* The reference formula of the scorer, from its sub-scores
RefClamp(x, lo, hi) == IF x < lo THEN lo ELSE IF x > hi THEN hi ELSE x
RefPitchScore(p) == RefClamp(6 * p, 0, One)
RefEnergyScore(e) == RefClamp(15 * e, 0, One)
RefRateScore(r) ==
    RefClamp(CASE r < 200 -> 15 * r
               [] r > 500 -> Max(0, One - 10 * (r - 500))
               [] OTHER -> One - 20 * Abs(r - 350),
             0, One)
RefPauseScore(q) ==
    CASE q < 15 -> 200 * q
      [] q > 30 -> Max(0, One - 150 * (q - 30))
      [] OTHER -> One
RefScore(a) ==
    RefClamp(35 * RefPitchScore(a.pitch_var) + 25 * RefEnergyScore(a.energy_var)
             + 15 * RefRateScore(a.speech_rate) + 15 * RefPauseScore(a.pause_ratio)
             + 10 * (30 * a.emotion_confidence),
             0, 100 * One)

InDomain(a) ==
    /\ a.pitch_var >= 0 /\ a.energy_var >= 0 /\ a.speech_rate >= 0
    /\ a.pause_ratio >= 0
    /\ a.emotion_confidence >= 0 /\ a.emotion_confidence <= 100

\* C3: for every non-negative descriptor set and emotion confidence in
\* [0,1] the returned score equals the reference formula
\* clamp(100 * (0.35 pitchScore + 0.25 energyScore + 0.15 rateScore
\* + 0.15 pauseScore + 0.10 emotionScore), 0, 100); the pitch sub-score is
\* 1.0 from pitch variability 50 on, the energy sub-score is 1.0 from energy
\* variability 0.2 on, the rate sub-score is 1.0 at 3.5 and 0.0 at 0.
C3_MatchesReference ==
    (ScoreReturned /\ InDomain(sc_args)) =>
        /\ sc_ret = RefScore(sc_args)
        /\ sc_args.pitch_var >= 500 => pitch_score(sc_args.pitch_var) = One
        /\ sc_args.energy_var >= 200 => energy_score(sc_args.energy_var) = One
        /\ sc_args.speech_rate = 350 => rate_score(sc_args.speech_rate) = One
        /\ sc_args.speech_rate = 0 => rate_score(sc_args.speech_rate) = 0

\* C3's case: the scenario {45, 0.12, 3.6, 0.18} with confidence 0.8 scores
\* 83.5
C3_Witness ==
    /\ ScoreReturned
    /\ sc_args = [pitch_var |-> 450, energy_var |-> 120, speech_rate |-> 360,
                  pause_ratio |-> 18, emotion_confidence |-> 80]
    /\ 2 * sc_ret = 167 * One

\* The largest change of a sub-score over one resolution step of its input
\* that a continuous piecewise-linear score with the slopes of the code
\* (1/2, 1/1.5 and 1/3 per syl/sec) can show: 0.01 of the sub-score
StepTolerance == One \div 100

\* C4: the rate sub-score is continuous at 2.0 and 5.0: between a rate and
\* the rate one step (0.01 syl/sec) away, on either side of a boundary, the
\* sub-score changes by no more than the step allows, and so does the
\* expressiveness score with every other input fixed.
C4_RateScoreContinuous ==
    (ScoreReturned /\ InDomain(sc_args)) =>
        \A r2 \in RateArgs :
            Abs(r2 - sc_args.speech_rate) = 1 =>
                /\ Abs(rate_score(r2) - rate_score(sc_args.speech_rate))
                       <= StepTolerance
                /\ Abs(calculate_expressiveness_score(
                           sc_args.pitch_var, sc_args.energy_var, r2,
                           sc_args.pause_ratio, sc_args.emotion_confidence)
                       - sc_ret) <= W_speech_rate * StepTolerance

\* C5: the score is monotonically non-decreasing in pitch variability, in
\* energy variability and in emotion confidence: raising one of them with
\* every other input fixed never lowers the returned score.
C5_Monotone ==
    ScoreReturned =>
        /\ \A p2 \in PitchArgs :
               p2 >= sc_args.pitch_var =>
                   calculate_expressiveness_score(
                       p2, sc_args.energy_var, sc_args.speech_rate,
                       sc_args.pause_ratio, sc_args.emotion_confidence) >= sc_ret
        /\ \A e2 \in EnergyArgs :
               e2 >= sc_args.energy_var =>
                   calculate_expressiveness_score(
                       sc_args.pitch_var, e2, sc_args.speech_rate,
                       sc_args.pause_ratio, sc_args.emotion_confidence) >= sc_ret
        /\ \A c2 \in ConfidenceArgs :
               c2 >= sc_args.emotion_confidence =>
                   calculate_expressiveness_score(
                       sc_args.pitch_var, sc_args.energy_var, sc_args.speech_rate,
                       sc_args.pause_ratio, c2) >= sc_ret

\* C5's case: a call whose score a higher pitch variability strictly raises
\* and a pitch variability above the saturation point leaves where it is
C5_Witness ==
    /\ ScoreReturned
    /\ sc_args.pitch_var = 450
    /\ calculate_expressiveness_score(
           500, sc_args.energy_var, sc_args.speech_rate,
           sc_args.pause_ratio, sc_args.emotion_confidence) > sc_ret
    /\ calculate_expressiveness_score(
           750, sc_args.energy_var, sc_args.speech_rate,
           sc_args.pause_ratio, sc_args.emotion_confidence)
       = calculate_expressiveness_score(
           500, sc_args.energy_var, sc_args.speech_rate,
           sc_args.pause_ratio, sc_args.emotion_confidence)

(***************************************************************************)
(* Python values.  None is the empty tuple and any other optional value v  *)
(* the one-element tuple <<v>>; a dict is a function on the keys it holds. *)
(***************************************************************************)
None == <<>>
Some(v) == <<v>>

\* dict.get(key, default)
Get(dict, key, default) == IF key \in DOMAIN dict THEN dict[key] ELSE default

\* a truth value that holds for every dict, the empty one included
TruthyDict_not_none(opt) == opt # None

\* the truth value of an optional dict: None and {} are false
TruthyDict(opt) == opt # None /\ DOMAIN opt[1] # {}

\* the truth value of an optional str: None and '' are false
TruthyText(opt) == opt # None /\ Len(opt[1]) > 0

\* round(n / d) to the nearest integer (n >= 0, d > 0), as the format specs
\* .0f and .1f round.  A value exactly half-way between two results is
\* rounded to the even one; the float the code formats carries a rounding
\* error and may fall on either side of such a tie.
RoundDiv(n, d) ==
    LET q == n \div d
        r == n % d
    IN  IF 2 * r < d THEN q
        ELSE IF 2 * r > d THEN q + 1
        ELSE IF q % 2 = 0 THEN q ELSE q + 1

\* f"{x:.1f}" of x = n / d
Format1f(n, d) ==
    LET t == RoundDiv(10 * n, d)
    IN  ToString(t \div 10) \o "." \o ToString(t % 10)

\* the emotion labels: those of the classifier that the rules tell apart,
\* and 'confident' of the rules' own lists
Emotions ==
    {"neutral", "joy", "anger", "confident", "enthusiasm", "sadness", "fear"}

\* primary_emotion.replace('_', ' ')
replace_underscore(emotion) ==
    CASE emotion = "neutral" -> "neutral"
      [] emotion = "joy" -> "joy"
      [] emotion = "anger" -> "anger"
      [] emotion = "confident" -> "confident"
      [] emotion = "enthusiasm" -> "enthusiasm"
      [] emotion = "sadness" -> "sadness"
      [] emotion = "fear" -> "fear"

\* str.capitalize()
capitalize(emotion) ==
    CASE emotion = "neutral" -> "Neutral"
      [] emotion = "joy" -> "Joy"
      [] emotion = "anger" -> "Anger"
      [] emotion = "confident" -> "Confident"
      [] emotion = "enthusiasm" -> "Enthusiasm"
      [] emotion = "sadness" -> "Sadness"
      [] emotion = "fear" -> "Fear"

(***************************************************************************)
(* FeedbackGenerator                                                       *)
(***************************************************************************)

\* FeedbackGenerator.__init__: self.thresholds
thresholds ==
    [pitch_variability |-> [low |-> 150, medium |-> 300, high |-> 400],
     energy_variability |-> [low |-> 30, medium |-> 60, high |-> 100],
     speech_rate |-> [too_slow |-> 200, slow |-> 250, optimal_low |-> 300,
                      optimal_high |-> 400, fast |-> 450, too_fast |-> 500],
     pause_ratio |-> [low |-> 10, medium |-> 15, high |-> 25, excessive |-> 35]]

\* the assessment with the first tier for scores above 80 only
_generate_overall_assessment_above_80(expressiveness, pitch_var, energy_var, speech_rate, primary_emotion) ==
    LET expressiveness_level ==
            IF expressiveness > 80 * One THEN "very expressive"
            ELSE IF expressiveness >= 60 * One THEN "expressive"
            ELSE IF expressiveness >= 40 * One THEN "moderately expressive"
            ELSE IF expressiveness >= 20 * One THEN "somewhat flat"
            ELSE "monotonous"
        pitch_desc ==
            IF pitch_var >= thresholds.pitch_variability.high THEN "varied pitch"
            ELSE IF pitch_var >= thresholds.pitch_variability.medium
                 THEN "good pitch variation"
            ELSE IF pitch_var >= thresholds.pitch_variability.low
                 THEN "limited pitch variation"
            ELSE "monotonous pitch"
        energy_desc ==
            IF energy_var >= thresholds.energy_variability.high THEN "dynamic volume"
            ELSE IF energy_var >= thresholds.energy_variability.medium
                 THEN "good volume variation"
            ELSE IF energy_var >= thresholds.energy_variability.low
                 THEN "limited volume variation"
            ELSE "flat volume"
        pace_desc ==
            IF speech_rate < thresholds.speech_rate.too_slow THEN "very slow pace"
            ELSE IF speech_rate < thresholds.speech_rate.slow THEN "slow pace"
            ELSE IF speech_rate >= thresholds.speech_rate.too_fast
                 THEN "very fast pace"
            ELSE IF speech_rate >= thresholds.speech_rate.fast THEN "fast pace"
            ELSE "good pace"
        emotion == capitalize(replace_underscore(primary_emotion))
    IN  "Your speech was " \o expressiveness_level \o ", with " \o pitch_desc
        \o " and " \o energy_desc \o ", delivered at a " \o pace_desc \o ". "
        \o "Your delivery primarily conveyed a " \o emotion \o " tone."

\* FeedbackGenerator._generate_overall_assessment
_generate_overall_assessment(expressiveness, pitch_var, energy_var, speech_rate, primary_emotion) ==
    LET expressiveness_level ==
            IF expressiveness >= 80 * One THEN "very expressive"
            ELSE IF expressiveness >= 60 * One THEN "expressive"
            ELSE IF expressiveness >= 40 * One THEN "moderately expressive"
            ELSE IF expressiveness >= 20 * One THEN "somewhat flat"
            ELSE "monotonous"
        pitch_desc ==
            IF pitch_var >= thresholds.pitch_variability.high THEN "varied pitch"
            ELSE IF pitch_var >= thresholds.pitch_variability.medium
                 THEN "good pitch variation"
            ELSE IF pitch_var >= thresholds.pitch_variability.low
                 THEN "limited pitch variation"
            ELSE "monotonous pitch"
        energy_desc ==
            IF energy_var >= thresholds.energy_variability.high THEN "dynamic volume"
            ELSE IF energy_var >= thresholds.energy_variability.medium
                 THEN "good volume variation"
            ELSE IF energy_var >= thresholds.energy_variability.low
                 THEN "limited volume variation"
            ELSE "flat volume"
        pace_desc ==
            IF speech_rate < thresholds.speech_rate.too_slow THEN "very slow pace"
            ELSE IF speech_rate < thresholds.speech_rate.slow THEN "slow pace"
            ELSE IF speech_rate >= thresholds.speech_rate.too_fast
                 THEN "very fast pace"
            ELSE IF speech_rate >= thresholds.speech_rate.fast THEN "fast pace"
            ELSE "good pace"
        emotion == capitalize(replace_underscore(primary_emotion))
    IN  "Your speech was " \o expressiveness_level \o ", with " \o pitch_desc
        \o " and " \o energy_desc \o ", delivered at a " \o pace_desc \o ". "
        \o "Your delivery primarily conveyed a " \o emotion \o " tone."

\* FeedbackGenerator._generate_specific_feedback: one sentence appended per
\* dimension
pitch_feedback(pitch_var) ==
    IF pitch_var >= thresholds.pitch_variability.high
    THEN "Your pitch variation was excellent, creating an engaging and dynamic delivery."
    ELSE IF pitch_var >= thresholds.pitch_variability.medium
    THEN "You demonstrated good pitch variation, which helped maintain listener interest."
    ELSE IF pitch_var >= thresholds.pitch_variability.low
    THEN "Your pitch variation was adequate but could be improved to create a more engaging delivery."
    ELSE "Your speech had limited pitch variation, which may come across as monotonous."

energy_feedback(energy_var) ==
    IF energy_var >= thresholds.energy_variability.high
    THEN "Your volume dynamics were excellent, effectively emphasizing important points."
    ELSE IF energy_var >= thresholds.energy_variability.medium
    THEN "You showed good volume variation, which helped highlight key parts of your speech."
    ELSE IF energy_var >= thresholds.energy_variability.low
    THEN "Your volume variation was moderate. Consider using more dynamic volume to emphasize important points."
    ELSE "Your speech had limited volume variation, which may reduce impact and engagement."

pace_feedback(speech_rate) ==
    IF speech_rate < thresholds.speech_rate.too_slow
    THEN "Your speaking pace was very slow, which might cause listeners to lose interest."
    ELSE IF speech_rate < thresholds.speech_rate.slow
    THEN "Your speaking pace was somewhat slow. Consider speaking slightly faster for more engagement."
    ELSE IF speech_rate >= thresholds.speech_rate.too_fast
    THEN "Your speaking pace was very fast, which might make it difficult for listeners to follow."
    ELSE IF speech_rate >= thresholds.speech_rate.fast
    THEN "Your speaking pace was somewhat fast. Consider slowing down slightly for better clarity."
    ELSE "Your speaking pace was well-balanced, making it easy for listeners to follow."

pause_feedback(pause_ratio) ==
    IF pause_ratio >= thresholds.pause_ratio.excessive
    THEN "You had too many pauses in your speech, which might disrupt the flow."
    ELSE IF pause_ratio >= thresholds.pause_ratio.high
    THEN "You used pauses effectively to emphasize key points."
    ELSE IF pause_ratio >= thresholds.pause_ratio.medium
    THEN "Your use of pauses was balanced, creating a natural speaking rhythm."
    ELSE IF pause_ratio >= thresholds.pause_ratio.low
    THEN "You had few pauses in your speech. Strategic pauses can help emphasize important points."
    ELSE "You had very few pauses, which might make your speech feel rushed."

emphasis_feedback(emphasis_ratio) ==
    IF emphasis_ratio >= 10
    THEN "You emphasized key points effectively, which helps maintain listener attention."
    ELSE IF emphasis_ratio >= 5
    THEN "You used some emphasis in your speech, which helps highlight important information."
    ELSE "Your speech had limited emphasis. Consider emphasizing key points more to increase impact."

emotion_feedback(primary_emotion) ==
    "Your speech primarily conveyed a "
    \o capitalize(replace_underscore(primary_emotion))
    \o " tone, which may affect how your message is received."

_generate_specific_feedback(pitch_var, energy_var, speech_rate, pause_ratio, emphasis_ratio, primary_emotion) ==
    <<pitch_feedback(pitch_var), energy_feedback(energy_var),
      pace_feedback(speech_rate), pause_feedback(pause_ratio),
      emphasis_feedback(emphasis_ratio), emotion_feedback(primary_emotion)>>

\* a list built by appending item when cond holds
AppendIf(list, cond, item) == IF cond THEN Append(list, item) ELSE list

\* FeedbackGenerator._identify_strengths: the strengths appended, one
\* dimension after the other
strengths_found(pitch_var, energy_var, speech_rate, pause_ratio, emphasis_ratio, primary_emotion) ==
    LET s1 == AppendIf(<<>>, pitch_var >= thresholds.pitch_variability.medium,
                  "Good pitch variation that creates an engaging delivery")
        s2 == AppendIf(s1, energy_var >= thresholds.energy_variability.medium,
                  "Effective use of volume variation to emphasize points")
        s3 == AppendIf(s2, thresholds.speech_rate.optimal_low <= speech_rate
                           /\ speech_rate <= thresholds.speech_rate.optimal_high,
                  "Well-balanced speaking pace that is easy to follow")
        s4 == AppendIf(s3, thresholds.pause_ratio.medium <= pause_ratio
                           /\ pause_ratio <= thresholds.pause_ratio.high,
                  "Strategic use of pauses to emphasize key points")
        s5 == AppendIf(s4, emphasis_ratio >= 5,
                  "Good emphasis on important information")
        s6 == AppendIf(s5, primary_emotion \in {"confident", "joy", "enthusiasm"},
                  capitalize(replace_underscore(primary_emotion))
                  \o " tone that enhances your message")
    IN  s6

\* FeedbackGenerator._identify_strengths: with the generic strength when
\* none was appended
_identify_strengths_no_generic(pitch_var, energy_var, speech_rate, pause_ratio, emphasis_ratio, primary_emotion) ==
    strengths_found(pitch_var, energy_var, speech_rate, pause_ratio,
                    emphasis_ratio, primary_emotion)
_identify_strengths(pitch_var, energy_var, speech_rate, pause_ratio, emphasis_ratio, primary_emotion) ==
    LET strengths == strengths_found(pitch_var, energy_var, speech_rate,
                                     pause_ratio, emphasis_ratio, primary_emotion)
    IN  IF strengths = <<>>
        THEN <<"Consistent delivery that provides a foundation to build upon">>
        ELSE strengths

\* the suggestions with a pace and a pause entry only for values below the
\* optimal range
_generate_improvement_suggestions_below_only(pitch_var, energy_var, speech_rate, pause_ratio, emphasis_ratio, primary_emotion) ==
    LET s1 == AppendIf(<<>>, pitch_var < thresholds.pitch_variability.medium,
                  "Vary your pitch more to make your delivery more engaging")
        s2 == AppendIf(s1, energy_var < thresholds.energy_variability.medium,
                  "Use more dynamic volume to emphasize important points")
        s3 == IF speech_rate < thresholds.speech_rate.optimal_low
              THEN Append(s2, "Increase your speaking pace slightly to maintain listener interest")
              ELSE s2
        s4 == IF pause_ratio < thresholds.pause_ratio.medium
              THEN Append(s3, "Use strategic pauses to emphasize key points and give listeners time to absorb information")
              ELSE s3
        s5 == AppendIf(s4, emphasis_ratio < 5,
                  "Emphasize key points more to increase impact and highlight important information")
        s6 == AppendIf(s5, primary_emotion \in {"neutral", "sadness", "fear"},
                  "Try to convey more enthusiasm and confidence in your delivery")
    IN  IF s6 = <<>>
        THEN <<"Practice with different styles to further enhance your already strong delivery">>
        ELSE s6

\* FeedbackGenerator._generate_improvement_suggestions
_generate_improvement_suggestions(pitch_var, energy_var, speech_rate, pause_ratio, emphasis_ratio, primary_emotion) ==
    LET s1 == AppendIf(<<>>, pitch_var < thresholds.pitch_variability.medium,
                  "Vary your pitch more to make your delivery more engaging")
        s2 == AppendIf(s1, energy_var < thresholds.energy_variability.medium,
                  "Use more dynamic volume to emphasize important points")
        s3 == IF speech_rate < thresholds.speech_rate.optimal_low
              THEN Append(s2, "Increase your speaking pace slightly to maintain listener interest")
              ELSE IF speech_rate > thresholds.speech_rate.optimal_high
              THEN Append(s2, "Slow down your speaking pace slightly for better clarity")
              ELSE s2
        s4 == IF pause_ratio < thresholds.pause_ratio.medium
              THEN Append(s3, "Use strategic pauses to emphasize key points and give listeners time to absorb information")
              ELSE IF pause_ratio > thresholds.pause_ratio.high
              THEN Append(s3, "Reduce the number of pauses to maintain better flow in your speech")
              ELSE s3
        s5 == AppendIf(s4, emphasis_ratio < 5,
                  "Emphasize key points more to increase impact and highlight important information")
        s6 == AppendIf(s5, primary_emotion \in {"neutral", "sadness", "fear"},
                  "Try to convey more enthusiasm and confidence in your delivery")
    IN  IF s6 = <<>>
        THEN <<"Practice with different styles to further enhance your already strong delivery">>
        ELSE s6

\* list(words)[:10] if len(words) > 10 else list(words): the words in no
\* guaranteed order, so the report holds them as a set; of more than ten,
\* some ten
Cap10_uncapped(words) == words
Cap10(words) ==
    IF Cardinality(words) > 10
    THEN CHOOSE w \in SUBSET words : Cardinality(w) = 10
    ELSE words

\* the sentence of an accuracy tier
accuracy_feedback(accuracy_score) ==
    IF accuracy_score >= 90
    THEN "Your content was delivered with excellent accuracy, closely matching the intended text."
    ELSE IF accuracy_score >= 70
    THEN "Your content was delivered with good accuracy, though some words were missed or added."
    ELSE IF accuracy_score >= 50
    THEN "Your content had moderate accuracy. Pay attention to key words that were missed."
    ELSE "Your content had significant deviations from the intended text. Focus on delivering the key points accurately."

\* FeedbackGenerator._evaluate_content_accuracy; int(similarity * 100)
\* truncates
_evaluate_content_accuracy(transcription, target_text) ==
    LET evaluation(trans_norm, target_norm) ==
            LET trans_words == split(trans_norm)
                target_words == split(target_norm)
                missing_words == Range(target_words) \ Range(trans_words)
                added_words == Range(trans_words) \ Range(target_words)
                result(similarity) ==
                    LET accuracy_score == (similarity[1] * 100) \div similarity[2]
                    IN  [accuracy_score |-> accuracy_score,
                         feedback |-> accuracy_feedback(accuracy_score),
                         missing_words |-> Cap10(missing_words),
                         added_words |-> Cap10(added_words)]
            IN  Only({result(similarity) :
                          similarity \in {ratio(trans_norm, target_norm)}})
    IN  Only({evaluation(trans_norm, target_norm) :
                  trans_norm \in {_normalize_text(transcription)},
                  target_norm \in {_normalize_text(target_text)}})

\* dict[key] = value
SetItem(dict, key, value) ==
    [k \in DOMAIN dict \cup {key} |-> IF k = key THEN value ELSE dict[k]]

\* FeedbackGenerator.generate
generate(analysis_results, target_text) ==
    LET pitch_var == Get(analysis_results, "pitch_variability", 0)
        energy_var == Get(analysis_results, "energy_variability", 0)
        speech_rate == Get(analysis_results, "speech_rate", 0)
        pause_ratio == Get(analysis_results, "pause_ratio", 0)
        emphasis_ratio == Get(analysis_results, "emphasis_ratio", 0)
        primary_emotion == Get(analysis_results, "primary_emotion", "neutral")
        transcription == Get(analysis_results, "transcription", <<>>)
        expressiveness == Get(analysis_results, "expressiveness_score", 0)
        components ==
            [overall_assessment |->
                 _generate_overall_assessment(expressiveness, pitch_var, energy_var,
                                              speech_rate, primary_emotion),
             specific_feedback |->
                 _generate_specific_feedback(pitch_var, energy_var, speech_rate,
                                             pause_ratio, emphasis_ratio,
                                             primary_emotion),
             strengths |->
                 _identify_strengths(pitch_var, energy_var, speech_rate,
                                     pause_ratio, emphasis_ratio, primary_emotion),
             improvement_suggestions |->
                 _generate_improvement_suggestions(pitch_var, energy_var,
                                                   speech_rate, pause_ratio,
                                                   emphasis_ratio, primary_emotion)]
        combined(feedback) ==
            IF TruthyText(target_text) /\ Len(transcription) > 0
            THEN SetItem(feedback, "content_accuracy",
                         _evaluate_content_accuracy(transcription, target_text[1]))
            ELSE feedback
    IN  Only({combined(feedback) : feedback \in {components}})

\* the relative difference |user - benchmark| / benchmark (0 when the
\* benchmark is not positive) is at most percent / 100
WithinPercent_strict(user, benchmark, percent) ==
    IF benchmark > 0
    THEN 100 * Abs(user - benchmark) < percent * benchmark
    ELSE TRUE

WithinPercent(user, benchmark, percent) ==
    IF benchmark > 0
    THEN 100 * Abs(user - benchmark) <= percent * benchmark
    ELSE TRUE

\* user_expressiveness >= benchmark_expressiveness * 0.9
expressiveness_comparable_strict(user_expressiveness, benchmark_expressiveness) ==
    10 * user_expressiveness > 9 * benchmark_expressiveness
expressiveness_comparable(user_expressiveness, benchmark_expressiveness) ==
    10 * user_expressiveness >= 9 * benchmark_expressiveness

\* what one block of _generate_comparison appends: pairs <<list, sentence>>
\* naming one of the lists general, strengths, improvements and matches

\* overall expressiveness
expressiveness_comparison(user_expressiveness, benchmark_expressiveness) ==
    IF expressiveness_comparable(user_expressiveness, benchmark_expressiveness)
    THEN << <<"general",
              "Your overall expressiveness ("
              \o Format1f(user_expressiveness, One)
              \o "%) is comparable to the benchmark ("
              \o Format1f(benchmark_expressiveness, One) \o "%).">>,
            IF user_expressiveness > benchmark_expressiveness
            THEN <<"strengths", "Your overall expressiveness exceeds the benchmark">>
            ELSE <<"matches", "Your overall expressiveness matches the benchmark">> >>
    ELSE << <<"general",
              "Your overall expressiveness ("
              \o Format1f(user_expressiveness, One)
              \o "%) is lower than the benchmark ("
              \o Format1f(benchmark_expressiveness, One) \o "%).">>,
            <<"improvements",
              "Work on increasing your overall expressiveness to match the benchmark">> >>

\* pitch variation
pitch_comparison(user_pitch_var, benchmark_pitch_var) ==
    IF WithinPercent(user_pitch_var, benchmark_pitch_var, 20)
    THEN << <<"matches", "Your pitch variation closely matches the benchmark">> >>
    ELSE IF user_pitch_var > benchmark_pitch_var
    THEN IF user_pitch_var > thresholds.pitch_variability.high
            /\ benchmark_pitch_var < thresholds.pitch_variability.high
         THEN << <<"improvements",
                   "Your pitch variation is higher than the benchmark - consider a more controlled delivery">> >>
         ELSE << <<"strengths",
                   "Your pitch variation is higher than the benchmark, which may increase engagement">> >>
    ELSE << <<"improvements",
              "Increase your pitch variation to match the benchmark for better engagement">> >>

\* energy variation
energy_comparison(user_energy_var, benchmark_energy_var) ==
    IF WithinPercent(user_energy_var, benchmark_energy_var, 20)
    THEN << <<"matches", "Your volume variation closely matches the benchmark">> >>
    ELSE IF user_energy_var > benchmark_energy_var
    THEN IF user_energy_var > thresholds.energy_variability.high
            /\ benchmark_energy_var < thresholds.energy_variability.high
         THEN << <<"improvements",
                   "Your volume variation is higher than the benchmark - consider a more controlled delivery">> >>
         ELSE << <<"strengths",
                   "Your dynamic volume use is more pronounced than the benchmark">> >>
    ELSE << <<"improvements",
              "Increase your volume variation to match the benchmark for better emphasis">> >>

\* speech rate
pace_comparison(user_speech_rate, benchmark_speech_rate) ==
    IF WithinPercent(user_speech_rate, benchmark_speech_rate, 10)
    THEN << <<"matches", "Your speaking pace closely matches the benchmark">> >>
    ELSE IF user_speech_rate > benchmark_speech_rate
    THEN IF benchmark_speech_rate < thresholds.speech_rate.optimal_high
            /\ user_speech_rate > thresholds.speech_rate.optimal_high
         THEN << <<"improvements",
                   "Slow down your speaking pace to match the benchmark for better clarity">> >>
         ELSE << <<"general",
                   "Your speaking pace (" \o Format1f(user_speech_rate, 100)
                   \o " syl/sec) is faster than the benchmark ("
                   \o Format1f(benchmark_speech_rate, 100) \o " syl/sec).">> >>
    ELSE IF benchmark_speech_rate > thresholds.speech_rate.optimal_low
            /\ user_speech_rate < thresholds.speech_rate.optimal_low
         THEN << <<"improvements",
                   "Increase your speaking pace to match the benchmark for better engagement">> >>
         ELSE << <<"general",
                   "Your speaking pace (" \o Format1f(user_speech_rate, 100)
                   \o " syl/sec) is slower than the benchmark ("
                   \o Format1f(benchmark_speech_rate, 100) \o " syl/sec).">> >>

\* pause ratio
pause_comparison(user_pause_ratio, benchmark_pause_ratio) ==
    IF WithinPercent(user_pause_ratio, benchmark_pause_ratio, 20)
    THEN << <<"matches", "Your use of pauses closely matches the benchmark">> >>
    ELSE IF user_pause_ratio > benchmark_pause_ratio
    THEN IF user_pause_ratio > thresholds.pause_ratio.high
            /\ benchmark_pause_ratio < thresholds.pause_ratio.high
         THEN << <<"improvements",
                   "Reduce your pauses to maintain better flow like the benchmark">> >>
         ELSE << <<"general",
                   "You use more pauses than the benchmark, which may affect your speaking rhythm.">> >>
    ELSE IF benchmark_pause_ratio > thresholds.pause_ratio.medium
            /\ user_pause_ratio < thresholds.pause_ratio.medium
         THEN << <<"improvements",
                   "Use more strategic pauses like the benchmark to emphasize key points">> >>
         ELSE << <<"general",
                   "You use fewer pauses than the benchmark, which may affect your emphasis.">> >>

\* emotional tone
emotion_comparison(user_primary_emotion, benchmark_primary_emotion) ==
    IF user_primary_emotion = benchmark_primary_emotion
    THEN << <<"matches",
              "Your emotional tone ("
              \o capitalize(replace_underscore(user_primary_emotion))
              \o ") matches the benchmark">> >>
    ELSE << <<"general",
              "Your emotional tone ("
              \o capitalize(replace_underscore(user_primary_emotion))
              \o ") differs from the benchmark ("
              \o capitalize(replace_underscore(benchmark_primary_emotion))
              \o ").">> >>
         \o IF benchmark_primary_emotion \in {"confident", "joy", "enthusiasm"}
               /\ user_primary_emotion \notin {"confident", "joy", "enthusiasm"}
            THEN << <<"improvements",
                      "Try to convey more "
                      \o capitalize(replace_underscore(benchmark_primary_emotion))
                      \o " in your delivery like the benchmark">> >>
            ELSE <<>>

\* the sentences appended to one list, in the order they were appended
RECURSIVE Appended(_, _)
Appended(entries, list) ==
    IF entries = <<>> THEN <<>>
    ELSE (IF Head(entries)[1] = list THEN <<Head(entries)[2]>> ELSE <<>>)
         \o Only({Appended(rest, list) : rest \in {Tail(entries)}})

\* FeedbackGenerator._generate_comparison
_generate_comparison(user_pitch_var, user_energy_var, user_speech_rate, user_pause_ratio, user_emphasis_ratio, user_primary_emotion, user_expressiveness, benchmark_pitch_var, benchmark_energy_var, benchmark_speech_rate, benchmark_pause_ratio, benchmark_emphasis_ratio, benchmark_primary_emotion, benchmark_expressiveness) ==
    LET comparison(entries) ==
            [general |-> Appended(entries, "general"),
             strengths |-> Appended(entries, "strengths"),
             improvements |-> Appended(entries, "improvements"),
             matches |-> Appended(entries, "matches")]
    IN  Only({comparison(entries) :
                  entries \in
                      {expressiveness_comparison(user_expressiveness,
                                                 benchmark_expressiveness)
                       \o pitch_comparison(user_pitch_var, benchmark_pitch_var)
                       \o energy_comparison(user_energy_var, benchmark_energy_var)
                       \o pace_comparison(user_speech_rate, benchmark_speech_rate)
                       \o pause_comparison(user_pause_ratio, benchmark_pause_ratio)
                       \o emotion_comparison(user_primary_emotion,
                                             benchmark_primary_emotion)}})

\* exact fractions <<numerator, denominator>> for the similarity factors
RECURSIVE GCD(_, _)
GCD(a, b) == IF b = 0 THEN a ELSE Only({GCD(b, r) : r \in {a % b}})
Reduce(f) ==
    Only({IF g = 0 THEN f ELSE <<f[1] \div g, f[2] \div g>> :
              g \in {GCD(f[1], f[2])}})
FracAdd(f, g) ==
    LET sum(x, y) ==
            Only({Reduce(<<x[1] * (lcm \div x[2]) + y[1] * (lcm \div y[2]), lcm>>) :
                      lcm \in {(x[2] \div GCD(x[2], y[2])) * y[2]}})
    IN  Only({sum(x, y) : x \in {f}, y \in {g}})

\* min(user / benchmark, 1.0) if benchmark > 0 else 0.5
expressiveness_factor(user, benchmark) ==
    IF benchmark > 0
    THEN IF user >= benchmark THEN <<1, 1>> ELSE Reduce(<<user, benchmark>>)
    ELSE <<1, 2>>

\* 1.0 - min(abs(user - benchmark) / benchmark, 1.0) if benchmark > 0 else 0.5
similarity_factor_zero_as_one(user, benchmark) ==
    IF benchmark > 0
    THEN IF Abs(user - benchmark) >= benchmark THEN <<0, 1>>
         ELSE Reduce(<<benchmark - Abs(user - benchmark), benchmark>>)
    ELSE <<1, 1>>
similarity_factor(user, benchmark) ==
    IF benchmark > 0
    THEN IF Abs(user - benchmark) >= benchmark THEN <<0, 1>>
         ELSE Reduce(<<benchmark - Abs(user - benchmark), benchmark>>)
    ELSE <<1, 2>>

\* similarity_score = sum(similarity_factors) / len(similarity_factors) * 100
similarity_score(user_expressiveness, benchmark_expressiveness, user_pitch_var, benchmark_pitch_var, user_energy_var, benchmark_energy_var, user_speech_rate, benchmark_speech_rate, user_primary_emotion, benchmark_primary_emotion) ==
    LET total ==
            FracAdd(expressiveness_factor(user_expressiveness, benchmark_expressiveness),
            FracAdd(similarity_factor(user_pitch_var, benchmark_pitch_var),
            FracAdd(similarity_factor(user_energy_var, benchmark_energy_var),
            FracAdd(similarity_factor(user_speech_rate, benchmark_speech_rate),
                    IF user_primary_emotion = benchmark_primary_emotion
                    THEN <<1, 1>> ELSE <<1, 2>>))))
    IN  Only({Reduce(<<20 * sum[1], sum[2]>>) : sum \in {total}})

\* FeedbackGenerator._generate_comparative_assessment
_generate_comparative_assessment(user_expressiveness, benchmark_expressiveness, user_pitch_var, benchmark_pitch_var, user_energy_var, benchmark_energy_var, user_speech_rate, benchmark_speech_rate, user_primary_emotion, benchmark_primary_emotion) ==
    LET similarity(score) ==
            "Your speech delivery "
            \o (IF score[1] >= 80 * score[2]
                THEN "is very similar to the benchmark recording ("
                ELSE IF score[1] >= 60 * score[2]
                THEN "has many similarities to the benchmark recording ("
                ELSE IF score[1] >= 40 * score[2]
                THEN "shares some characteristics with the benchmark recording ("
                ELSE "differs significantly from the benchmark recording (")
            \o ToString(RoundDiv(score[1], score[2])) \o "% match). "
        expressiveness ==
            IF expressiveness_comparable(user_expressiveness,
                                         benchmark_expressiveness)
            THEN IF user_expressiveness > benchmark_expressiveness
                 THEN "Your expressiveness exceeds the benchmark. "
                 ELSE "Your expressiveness closely matches the benchmark. "
            ELSE "The benchmark recording demonstrates higher expressiveness. "
        pace ==
            IF Abs(user_speech_rate - benchmark_speech_rate) <= 50
            THEN "Your speaking pace matches the benchmark well. "
            ELSE IF user_speech_rate > benchmark_speech_rate
            THEN "You speak faster than the benchmark. "
            ELSE "You speak slower than the benchmark. "
        emotion ==
            IF user_primary_emotion = benchmark_primary_emotion
            THEN "Both you and the benchmark convey a "
                 \o replace_underscore(user_primary_emotion) \o " tone."
            ELSE "You convey a "
                 \o capitalize(replace_underscore(user_primary_emotion))
                 \o " tone, while the benchmark conveys a "
                 \o capitalize(replace_underscore(benchmark_primary_emotion))
                 \o " tone."
    IN  Only({similarity(score) :
                  score \in {similarity_score(
                                 user_expressiveness, benchmark_expressiveness,
                                 user_pitch_var, benchmark_pitch_var,
                                 user_energy_var, benchmark_energy_var,
                                 user_speech_rate, benchmark_speech_rate,
                                 user_primary_emotion, benchmark_primary_emotion)}})
        \o expressiveness \o pace \o emotion

\* the content accuracy of generate_comparative: the user's, with the
\* benchmark's score and one more sentence when the benchmark has a
\* transcription
comparative_accuracy(user_transcription, benchmark_transcription, target_text) ==
    LET compared(user_accuracy, benchmark_accuracy) ==
            [k \in DOMAIN user_accuracy \cup {"benchmark_accuracy"} |->
                 IF k = "benchmark_accuracy"
                 THEN Get(benchmark_accuracy, "accuracy_score", 0)
                 ELSE IF k = "feedback"
                 THEN IF user_accuracy.accuracy_score >= benchmark_accuracy.accuracy_score
                      THEN user_accuracy.feedback
                           \o " Your content accuracy is similar to or better than the benchmark recording."
                      ELSE user_accuracy.feedback
                           \o " The benchmark recording has higher content accuracy. Pay attention to the missing words in your delivery."
                 ELSE user_accuracy[k]]
        with_benchmark(user_accuracy) ==
            IF Len(benchmark_transcription) > 0
            THEN Only({compared(user_accuracy, benchmark_accuracy) :
                           benchmark_accuracy \in
                               {_evaluate_content_accuracy(benchmark_transcription,
                                                           target_text)}})
            ELSE user_accuracy
    IN  Only({with_benchmark(user_accuracy) :
                  user_accuracy \in
                      {_evaluate_content_accuracy(user_transcription, target_text)}})

\* FeedbackGenerator.generate_comparative, past the check of the benchmark:
\* the comparative report for a benchmark dict and the user's own report
comparative_report(user_analysis, benchmark, target_text, user_feedback) ==
    LET user_pitch_var == Get(user_analysis, "pitch_variability", 0)
        user_energy_var == Get(user_analysis, "energy_variability", 0)
        user_speech_rate == Get(user_analysis, "speech_rate", 0)
        user_pause_ratio == Get(user_analysis, "pause_ratio", 0)
        user_emphasis_ratio == Get(user_analysis, "emphasis_ratio", 0)
        user_primary_emotion == Get(user_analysis, "primary_emotion", "neutral")
        user_expressiveness == Get(user_analysis, "expressiveness_score", 0)
        user_transcription == Get(user_analysis, "transcription", <<>>)
        benchmark_pitch_var == Get(benchmark, "pitch_variability", 0)
        benchmark_energy_var == Get(benchmark, "energy_variability", 0)
        benchmark_speech_rate == Get(benchmark, "speech_rate", 0)
        benchmark_pause_ratio == Get(benchmark, "pause_ratio", 0)
        benchmark_emphasis_ratio == Get(benchmark, "emphasis_ratio", 0)
        benchmark_primary_emotion == Get(benchmark, "primary_emotion", "neutral")
        benchmark_expressiveness == Get(benchmark, "expressiveness_score", 0)
        benchmark_transcription == Get(benchmark, "transcription", <<>>)
        components ==
            [overall_assessment |->
                 _generate_comparative_assessment(
                     user_expressiveness, benchmark_expressiveness,
                     user_pitch_var, benchmark_pitch_var,
                     user_energy_var, benchmark_energy_var,
                     user_speech_rate, benchmark_speech_rate,
                     user_primary_emotion, benchmark_primary_emotion),
             comparison |->
                 _generate_comparison(
                     user_pitch_var, user_energy_var, user_speech_rate,
                     user_pause_ratio, user_emphasis_ratio, user_primary_emotion,
                     user_expressiveness,
                     benchmark_pitch_var, benchmark_energy_var,
                     benchmark_speech_rate, benchmark_pause_ratio,
                     benchmark_emphasis_ratio, benchmark_primary_emotion,
                     benchmark_expressiveness),
             specific_feedback |-> Get(user_feedback, "specific_feedback", <<>>),
             improvement_suggestions |->
                 Get(user_feedback, "improvement_suggestions", <<>>)]
        combined(feedback) ==
            IF TruthyText(target_text) /\ Len(user_transcription) > 0
            THEN SetItem(feedback, "content_accuracy",
                         comparative_accuracy(user_transcription,
                                              benchmark_transcription,
                                              target_text[1]))
            ELSE feedback
    IN  Only({combined(feedback) : feedback \in {components}})

\* FeedbackGenerator.generate_comparative
generate_comparative_no_suggestions(user_analysis, benchmark_analysis, target_text) ==
    LET returned(user_feedback) ==
            IF ~TruthyDict(benchmark_analysis) THEN user_feedback
            ELSE Only({[k \in DOMAIN report \ {"improvement_suggestions"} |->
                            report[k]] :
                           report \in {comparative_report(
                                          user_analysis, benchmark_analysis[1],
                                          target_text, user_feedback)}})
    IN  Only({returned(user_feedback) :
                  user_feedback \in {generate(user_analysis, target_text)}})
generate_comparative(user_analysis, benchmark_analysis, target_text) ==
    LET returned(user_feedback) ==
            IF ~TruthyDict(benchmark_analysis) THEN user_feedback
            ELSE comparative_report(user_analysis, benchmark_analysis[1],
                                    target_text, user_feedback)
    IN  Only({returned(user_feedback) :
                  user_feedback \in {generate(user_analysis, target_text)}})


(***************************************************************************)
(* The feedback generator called on its own, as display_practice_page      *)
(* calls it: generate when there is no benchmark analysis, and             *)
(* generate_comparative (which itself falls back to generate's report when *)
(* the benchmark is None or empty).  A dict holds the keys of analyze()'s  *)
(* result that the generator reads; its expressiveness_score is the one    *)
(* the scorer computes for its descriptors.                                *)
(***************************************************************************)

\* the descriptor grids take this many steps past the first two buckets
FbGridSteps == 1

FbPitch == {150 * k : k \in 0..(2 + FbGridSteps)}
FbEnergy == {0, 30, 60, 100}
FbRate == {0, 250, 360, 450, 500}
FbPause == {0, 10, 18, 30, 100}
FbEmphasis == {0, 7}
FbEmotion == {"neutral", "joy", "anger"}
FbConfidence == {50, 100}

TextTheFox == <<"t", "h", "e", " ", "f", "o", "x">>
TextTheFoxBang == <<"T", "h", "e", " ", "f", "o", "x", "!">>
TextAFox == <<"a", " ", " ", "F", "o", "x", ".">>

AnalysisResult(p, e, r, q, m, em, c, t) ==
    [pitch_variability |-> p, energy_variability |-> e, speech_rate |-> r,
     pause_ratio |-> q, emphasis_ratio |-> m, primary_emotion |-> em,
     transcription |-> t,
     expressiveness_score |-> calculate_expressiveness_score(p, e, r, q, c)]

\* the dict with the keys of drop removed
Without(dict, drop) == [k \in DOMAIN dict \ drop |-> dict[k]]

\* every combination of the descriptor grids, with and without a
\* transcription
FbSweep ==
    {AnalysisResult(p, e, r, q, m, em, c, t) :
        p \in FbPitch, e \in FbEnergy, r \in FbRate, q \in FbPause,
        m \in FbEmphasis, em \in FbEmotion, c \in FbConfidence,
        t \in {TextTheFox}}

\* three recordings: the scenario of the specification, a silent one, and
\* one with every dimension in its good bucket
Scenario == AnalysisResult(450, 120, 360, 18, 7, "confident", 80, TextTheFox)
Silent == AnalysisResult(0, 0, 0, 100, 0, "neutral", 100, <<>>)
Good == AnalysisResult(300, 60, 300, 25, 5, "joy", 50, TextTheFox)

\* each with every transcription, and with keys missing
FbTranscriptions ==
    {<<>>, TranscriptionFailed, TranscriptionUnavailable, TextTheFox, TextAFox}
FbDrops ==
    {{}, {"expressiveness_score"}, {"transcription", "primary_emotion"},
     {"pitch_variability", "energy_variability", "speech_rate", "pause_ratio",
      "emphasis_ratio", "primary_emotion", "transcription",
      "expressiveness_score"}}
FbVariants ==
    {Without([d EXCEPT !.transcription = t], drop) :
        d \in {Scenario, Silent, Good}, t \in FbTranscriptions, drop \in FbDrops}

\* each value of a bucket table, the value just below it and the value
\* just above it, in the unit of the descriptor
Around(table) ==
    {0} \cup UNION {{table[k] - 1, table[k], table[k] + 1} : k \in DOMAIN table}

EdgePitch == Around(thresholds.pitch_variability)
EdgeEnergy == Around(thresholds.energy_variability)
EdgeRate == Around(thresholds.speech_rate)
EdgePause == Around(thresholds.pause_ratio) \cup {100}
EdgeEmphasis == {0, 4, 5, 6, 9, 10, 11}

\* one descriptor at a time walks over the edges of its buckets, the others
\* staying all in their good bucket or all outside it
FbEdges ==
    UNION {
        {AnalysisResult(p, b.e, b.r, b.q, b.m, b.em, 80, TextTheFox) : p \in EdgePitch}
        \cup {AnalysisResult(b.p, e, b.r, b.q, b.m, b.em, 80, TextTheFox) : e \in EdgeEnergy}
        \cup {AnalysisResult(b.p, b.e, r, b.q, b.m, b.em, 80, TextTheFox) : r \in EdgeRate}
        \cup {AnalysisResult(b.p, b.e, b.r, q, b.m, b.em, 80, TextTheFox) : q \in EdgePause}
        \cup {AnalysisResult(b.p, b.e, b.r, b.q, m, b.em, 80, TextTheFox) : m \in EdgeEmphasis}
        \cup {AnalysisResult(b.p, b.e, b.r, b.q, b.m, em, 80, TextTheFox) :
                 em \in {"confident", "enthusiasm", "sadness", "fear", "anger"}}
        : b \in {[p |-> 300, e |-> 60, r |-> 360, q |-> 18, m |-> 7, em |-> "joy"],
                 [p |-> 0, e |-> 0, r |-> 0, q |-> 0, m |-> 0, em |-> "anger"]}}

\* the scenario with an expressiveness score at, just below and just above
\* each tier of the assessment
FbScores ==
    {[Scenario EXCEPT !.expressiveness_score = score] :
        score \in {0, 100 * One}
                  \cup UNION {{tier * One - 1, tier * One, tier * One + 1} :
                                 tier \in {20, 40, 60, 80}}}

\* three benchmark recordings: one with every dimension in its good bucket,
\* one with pitch, energy and pauses below it, one with every dimension in
\* the top bucket
FbBenchmarks ==
    {[p |-> 300, e |-> 60, r |-> 370, q |-> 25, m |-> 5, em |-> "joy", c |-> 50],
     [p |-> 200, e |-> 40, r |-> 320, q |-> 10, m |-> 3, em |-> "neutral", c |-> 50],
     [p |-> 450, e |-> 120, r |-> 600, q |-> 30, m |-> 7, em |-> "confident", c |-> 80]}

\* the values at, just inside and just outside the tolerance around a
\* benchmark value, and half and twice the value
Near(value, percent) ==
    {0, value \div 2, 2 * value}
    \cup UNION {{edge - 1, edge, edge + 1} :
                   edge \in {(value * (100 - percent)) \div 100,
                             (value * (100 + percent)) \div 100}}

\* a benchmark recording, and a user recording that differs from it in one
\* descriptor
FbCompared ==
    UNION {
        {<<AnalysisResult(p, b.e, b.r, b.q, b.m, b.em, b.c, TextTheFox),
           AnalysisResult(b.p, b.e, b.r, b.q, b.m, b.em, b.c, TextTheFox)>> :
            p \in Near(b.p, 20) \cup EdgePitch}
        \cup {<<AnalysisResult(b.p, e, b.r, b.q, b.m, b.em, b.c, TextTheFox),
                AnalysisResult(b.p, b.e, b.r, b.q, b.m, b.em, b.c, TextTheFox)>> :
                 e \in Near(b.e, 20) \cup EdgeEnergy}
        \cup {<<AnalysisResult(b.p, b.e, r, b.q, b.m, b.em, b.c, TextTheFox),
                AnalysisResult(b.p, b.e, b.r, b.q, b.m, b.em, b.c, TextTheFox)>> :
                 r \in Near(b.r, 10) \cup EdgeRate}
        \cup {<<AnalysisResult(b.p, b.e, b.r, q, b.m, b.em, b.c, TextTheFox),
                AnalysisResult(b.p, b.e, b.r, b.q, b.m, b.em, b.c, TextTheFox)>> :
                 q \in Near(b.q, 20) \cup EdgePause}
        : b \in FbBenchmarks}

FeedbackInit ==
    /\ fb_pc = "call"
    /\ fb_op = "none"
    /\ fb_report = <<>>
    /\ \/ /\ fb_user \in FbEdges \cup FbScores
          /\ fb_target = None
          /\ fb_bench \in {None, Some(Good)}
       \/ /\ \E pair \in FbCompared :
                /\ fb_user = pair[1]
                /\ fb_bench = Some(pair[2])
          /\ fb_target = None
       \/ /\ fb_user \in FbSweep
          /\ fb_target \in {None, Some(TextTheFoxBang)}
          /\ fb_bench \in {None, Some(fb_user), Some(Good)}
       \/ /\ fb_user \in FbVariants
          /\ fb_target \in {None, Some(<<>>), Some(TextTheFoxBang)}
          /\ fb_bench \in {None, Some(<<>>), Some(fb_user), Some(Scenario),
                           Some(Without(Silent, {"transcription"}))}
    /\ ScoreIdle
    /\ AnalyzeIdle
    /\ TextIdle
    /\ PageIdle
    /\ FramesIdle
    /\ ConcurrentIdle

\* feedback_generator.generate(analysis_results, target_text)
Generate ==
    /\ fb_pc = "call"
    /\ ~TruthyDict(fb_bench)
    /\ fb_report' = generate(fb_user, fb_target)
    /\ fb_op' = "generate"
    /\ fb_pc' = "return"
    /\ UNCHANGED <<fb_user, fb_bench, fb_target, sc_vars, an_vars, tx_vars, pg_vars,
                   fr_vars, cc_vars>>

\* feedback_generator.generate_comparative(analysis_results,
\* benchmark_analysis, target_text)
GenerateComparative ==
    /\ fb_pc = "call"
    /\ fb_report' = generate_comparative(fb_user, fb_bench, fb_target)
    /\ fb_op' = "generate_comparative"
    /\ fb_pc' = "return"
    /\ UNCHANGED <<fb_user, fb_bench, fb_target, sc_vars, an_vars, tx_vars, pg_vars,
                   fr_vars, cc_vars>>

FeedbackNext == Generate \/ GenerateComparative

SpecFeedback == FeedbackInit /\ [][FeedbackNext]_vars

(***************************************************************************)
(* SpeechAnalyzer.analyze, step by step.  The file system is the set of    *)
(* temporary files on disk; a call ends by returning the results dict,     *)
(* returning None, or raising.  Each step that calls into a library may    *)
(* fail with an exception.                                                 *)
(***************************************************************************)

\* how many calls of analyze a behaviour makes
MaxCalls == 3

\* what callers pass as audio_file: display_practice_page passes a BytesIO
\* for the recording and a pathlib.Path for the benchmark
AudioFileKinds == {"BytesIO", "Path"}

\* hasattr(audio_file, 'getvalue')
has_getvalue(kind) == kind = "BytesIO"

\* the audio in the input: a spoken recording, a recording of silence
\* (samples all zero), a recording of no samples, bytes that are not audio
AudioKinds == {"speech", "silence", "empty", "corrupt"}

\* where a call meets an exception of the environment (a full disk, an
\* out-of-memory condition, a conversion the installed library version
\* rejects): nowhere, while the input is written, in the feature
\* extraction, in the scoring step, or while the results dict is built
Faults == {"none", "write", "features", "score", "results"}

\* audio: the audio in the input; stt_raises, classifier_raises: the model
\* call raises; fault: see Faults
Environments ==
    [audio : AudioKinds, stt_raises : BOOLEAN, classifier_raises : BOOLEAN,
     fault : Faults]

\* the value librosa.pyin gives an unvoiced frame; voiced frames hold a
\* positive frequency
NaN == -1

\* pitch[~np.isnan(pitch)]
not_nan(pitch) == SelectSeq(pitch, LAMBDA f0 : f0 # NaN)

\* what librosa extracts from the loaded and trimmed audio: duration in
\* 1/100 s, the pitch per frame in 1/10 Hz (NaN for an unvoiced frame), the RMS energy per frame in
\* 1/1000, the number of onsets, the tempo; raises: a librosa call raises.
\* What the installed librosa does with audio of no samples is not fixed by
\* this repository: it raises, or it yields no frame, or one frame of
\* padding.
Extracted(audio) ==
    CASE audio = "speech" ->
           {[raises |-> FALSE, duration |-> 200, pitch |-> f0,
             energy |-> <<10, 250, 250, 10>>, onsets |-> 7, tempo |-> 120] :
               f0 \in {<<NaN, 1000, 1900, NaN>>, <<1000, 1900, 1900, 1000>>}}
      [] audio = "silence" ->
           {[raises |-> FALSE, duration |-> 200, pitch |-> <<NaN, NaN, NaN, NaN>>,
             energy |-> <<0, 0, 0, 0>>, onsets |-> 0, tempo |-> 0]}
      [] audio \in {"empty", "corrupt"} ->
           {[raises |-> r, duration |-> 0, pitch |-> [i \in DOMAIN e |-> NaN],
             energy |-> e, onsets |-> 0, tempo |-> 0] :
               r \in BOOLEAN, e \in {<<>>, <<0>>}}

RECURSIVE np_sum(_)
np_sum(series) ==
    IF series = <<>> THEN 0 ELSE Head(series) + np_sum(Tail(series))

\* np.max of a series that is not empty
np_max(series) ==
    CHOOSE m \in Range(series) : \A x \in Range(series) : x <= m

\* np.std of a series that is not empty: the root of the mean squared
\* deviation, for the series whose deviation is a whole number of units
np_std(series) ==
    LET n == Len(series)
        squares == np_sum([i \in 1..n |-> series[i] * series[i]])
        total == np_sum(series)
    IN  CHOOSE s \in 0..np_max(series) :
            n * n * s * s = n * squares - total * total

\* np.sum(flags) / len(energy), in 1/100
frame_ratio(flagged, energy) == (100 * Cardinality(flagged)) \div Len(energy)

\* is_pause with a threshold that is itself a pause
is_pause_inclusive(energy) ==
    {i \in 1..Len(energy) : 100 * energy[i] <= np_max(energy)}

\* energy_threshold = 0.01 * np.max(energy); is_pause = energy <
\* energy_threshold: the frames flagged, for a series that is not empty
is_pause(energy) ==
    {i \in 1..Len(energy) : 100 * energy[i] < np_max(energy)}

\* emphasis_threshold = 0.8 * np.max(energy); is_emphasis = energy >
\* emphasis_threshold
is_emphasis(energy) ==
    {i \in 1..Len(energy) : 10 * energy[i] > 8 * np_max(energy)}

\* analyze, lines 143-189: the descriptors of what was extracted, for an
\* energy series that is not empty
features(rec) ==
    [duration |-> rec.duration,
     estimated_syllables |-> rec.onsets,
     tempo |-> rec.tempo,
     pitch |-> rec.pitch,
     valid_pitch |-> not_nan(rec.pitch),
     energy |-> rec.energy,
     speech_rate |->
         IF rec.duration > 0 THEN (10000 * rec.onsets) \div rec.duration ELSE 0,
     pitch_variability |->
         IF Len(not_nan(rec.pitch)) > 0 THEN np_std(not_nan(rec.pitch)) ELSE 0,
     energy_variability |-> np_std(rec.energy),
     pause_ratio |-> frame_ratio(is_pause(rec.energy), rec.energy),
     emphasis_ratio |-> frame_ratio(is_emphasis(rec.energy), rec.energy)]

\* the fallback of detect_emotion
NeutralOnly == [label \in {"neutral"} |-> 100]

\* what the classifier may return for a text: scores per label, in 1/100
ClassifierOutputs ==
    {[label \in {"joy", "neutral"} |-> IF label = "joy" THEN 80 ELSE 20],
     [label \in {"neutral", "sadness"} |-> IF label = "neutral" THEN 60 ELSE 40]}

\* max(emotions.items(), key=lambda x: x[1])[0]
primary_of(emotions) ==
    CHOOSE label \in DOMAIN emotions :
        \A other \in DOMAIN emotions : emotions[other] <= emotions[label]

\* detect_emotion with a fallback confidence of one half
detect_emotion_half(loaded, ok, text, output) ==
    IF ~loaded \/ text = <<>> \/ ~ok
    THEN <<[label \in {"neutral"} |-> 50], "neutral">>
    ELSE <<output, primary_of(output)>>

\* SpeechAnalyzer.detect_emotion: the fallback when the classifier is not
\* loaded, the text is empty or classifying raises; it never raises
detect_emotion(loaded, ok, text, output) ==
    IF ~loaded \/ text = <<>> THEN <<NeutralOnly, "neutral">>
    ELSE IF ok THEN <<output, primary_of(output)>>
    ELSE <<NeutralOnly, "neutral">>

\* emotions.get(primary_emotion, 0.0) if emotions else 0.5
emotion_confidence(emotions, primary_emotion) ==
    IF DOMAIN emotions # {} THEN Get(emotions, primary_emotion, 0) ELSE 50

\* librosa.times_like: one time per frame, in hops of 512 samples
times_like(series) == [i \in 1..Len(series) |-> i - 1]

\* the dict analyze returns, lines 206-223
results(locals, transcription) ==
    [pitch |-> locals.valid_pitch,
     pitch_timestamps |-> times_like(locals.pitch),
     energy |-> locals.energy,
     energy_timestamps |-> times_like(locals.energy),
     pitch_variability |-> locals.pitch_variability,
     energy_variability |-> locals.energy_variability,
     speech_rate |-> locals.speech_rate,
     tempo |-> locals.tempo,
     pause_ratio |-> locals.pause_ratio,
     emphasis_ratio |-> locals.emphasis_ratio,
     duration |-> locals.duration,
     estimated_syllables |-> locals.estimated_syllables,
     transcription |-> transcription,
     emotions |-> locals.emotions,
     primary_emotion |-> locals.primary_emotion,
     expressiveness_score |-> locals.expressiveness_score]

AnalyzeInit ==
    /\ an_pc = "ready"
    /\ an_calls = 0
    /\ audio_file = "none"
    /\ temp_path = 0
    /\ tmp_files = {}
    /\ an_transcription = None
    /\ an_ret = "none"
    /\ model_loaded \in BOOLEAN
    /\ classifier_loaded \in BOOLEAN
    /\ an_env = <<>>
    /\ an_locals = <<>>
    /\ an_results = None
    /\ st_shown = {}
    /\ ScoreIdle
    /\ FeedbackIdle
    /\ TextIdle
    /\ PageIdle
    /\ FramesIdle
    /\ ConcurrentIdle

\* analyzer.analyze(audio_file) is called; tempfile.NamedTemporaryFile(
\* suffix='.wav', delete=False) creates a file under a fresh name
AnalyzeCall(kind, env) ==
    /\ an_pc \in {"ready", "done"}
    /\ an_calls < MaxCalls
    /\ an_calls' = an_calls + 1
    /\ audio_file' = kind
    /\ an_env' = env
    /\ temp_path' = an_calls + 1
    /\ tmp_files' = tmp_files \cup {an_calls + 1}
    /\ an_transcription' = None
    /\ an_locals' = <<>>
    /\ an_results' = None
    /\ an_ret' = "none"
    /\ an_pc' = "with"
    /\ UNCHANGED <<model_loaded, classifier_loaded>>

\* a call by any caller, looked at on a cleared screen
AnalyzeEnter(kind) ==
    /\ \E env \in Environments : AnalyzeCall(kind, env)
    /\ st_shown' = {}
    /\ UNCHANGED <<sc_vars, fb_vars, tx_vars, pg_vars, fr_vars, cc_vars>>

\* temp_file.write(audio_file.getvalue()), inside the with block and before
\* the try: an audio_file without getvalue raises AttributeError, a failed
\* write raises OSError; the with block closes the file (delete=False keeps
\* it) and the exception leaves analyze
WriteInput ==
    /\ an_pc = "with"
    /\ IF has_getvalue(audio_file) /\ an_env.fault # "write"
       THEN /\ an_pc' = "try"
            /\ UNCHANGED an_ret
       ELSE /\ an_pc' = "done"
            /\ an_ret' = "raised"
    /\ UNCHANGED <<an_calls, audio_file, temp_path, tmp_files, an_transcription,
                   model_loaded, classifier_loaded, an_env, an_locals,
                   an_results, st_shown, sc_vars, fb_vars, tx_vars, pg_vars,
                   fr_vars, cc_vars>>

\* the inner try: AudioSegment.from_file / export rewrite temp_path in place;
\* a failure is caught and only warned about
ConvertAudio ==
    /\ an_pc = "try"
    /\ st_shown' = IF an_env.audio = "corrupt"
                   THEN st_shown \cup {<<"warning", "Audio conversion warning">>}
                   ELSE st_shown
    /\ an_pc' = "converted"
    /\ UNCHANGED <<an_calls, audio_file, temp_path, tmp_files, an_transcription,
                   an_ret, model_loaded, classifier_loaded, an_env, an_locals,
                   an_results, sc_vars, fb_vars, tx_vars, pg_vars,
                   fr_vars, cc_vars>>

\* loading that goes on with audio that cannot be decoded
LoadAudio_ignores_decode_error ==
    /\ an_pc = "converted"
    /\ an_pc' = "loaded"
    /\ UNCHANGED <<an_calls, audio_file, temp_path, tmp_files, an_transcription,
                   an_ret, model_loaded, classifier_loaded, an_env, an_locals,
                   an_results, st_shown, sc_vars, fb_vars, tx_vars, pg_vars,
                   fr_vars, cc_vars>>

\* librosa.load and librosa.effects.trim: audio that cannot be decoded
\* raises
LoadAudio ==
    /\ an_pc = "converted"
    /\ an_pc' = IF an_env.audio = "corrupt" THEN "except" ELSE "loaded"
    /\ UNCHANGED <<an_calls, audio_file, temp_path, tmp_files, an_transcription,
                   an_ret, model_loaded, classifier_loaded, an_env, an_locals,
                   an_results, st_shown, sc_vars, fb_vars, tx_vars, pg_vars,
                   fr_vars, cc_vars>>

\* SpeechAnalyzer.transcribe_audio: a sentinel when the model is not loaded
\* or when transcribing raises, the text heard otherwise; it never raises
transcribe_audio(loaded, ok, heard) ==
    IF ~loaded THEN TranscriptionUnavailable
    ELSE IF ok THEN heard
    ELSE TranscriptionFailed

\* what the speech-to-text model makes of the audio
Heard(audio) == IF audio = "speech" THEN TextTheFox ELSE <<>>

TranscribeAudio ==
    /\ an_pc = "loaded"
    /\ an_transcription' =
           Some(transcribe_audio(model_loaded, ~an_env.stt_raises,
                                 Heard(an_env.audio)))
    /\ st_shown' = IF model_loaded /\ an_env.stt_raises
                   THEN st_shown \cup {<<"warning", "Transcription error">>}
                   ELSE st_shown
    /\ an_pc' = "transcribed"
    /\ UNCHANGED <<an_calls, audio_file, temp_path, tmp_files, an_ret,
                   model_loaded, classifier_loaded, an_env, an_locals,
                   an_results, sc_vars, fb_vars, tx_vars, pg_vars,
                   fr_vars, cc_vars>>

\* pitch, energy, speech rate, pauses and emphasis (librosa, numpy);
\* np.max(energy) raises ValueError for an empty energy series
ExtractFeatures ==
    /\ an_pc = "transcribed"
    /\ \E rec \in Extracted(an_env.audio) :
           IF an_env.fault = "features" \/ rec.raises \/ rec.energy = <<>>
           THEN /\ an_pc' = "except"
                /\ UNCHANGED an_locals
           ELSE /\ an_pc' = "features"
                /\ an_locals' = features(rec)
    /\ UNCHANGED <<an_calls, audio_file, temp_path, tmp_files, an_transcription,
                   an_ret, model_loaded, classifier_loaded, an_env, an_results,
                   st_shown, sc_vars, fb_vars, tx_vars, pg_vars,
                   fr_vars, cc_vars>>

\* detect_emotion (which catches its own exceptions), the expressiveness
\* score and librosa.times_like
DetectEmotionAndScore ==
    /\ an_pc = "features"
    /\ \E output \in ClassifierOutputs :
           LET detected == detect_emotion(classifier_loaded,
                                          ~an_env.classifier_raises,
                                          an_transcription[1], output)
           IN  an_locals' =
                   [emotions |-> detected[1],
                    primary_emotion |-> detected[2],
                    expressiveness_score |->
                        calculate_expressiveness_score(
                            an_locals.pitch_variability,
                            an_locals.energy_variability,
                            an_locals.speech_rate, an_locals.pause_ratio,
                            emotion_confidence(detected[1], detected[2]))]
                   @@ an_locals
    /\ st_shown' = IF /\ classifier_loaded
                      /\ an_transcription[1] # <<>>
                      /\ an_env.classifier_raises
                   THEN st_shown \cup {<<"warning", "Emotion detection error">>}
                   ELSE st_shown
    /\ an_pc' = IF an_env.fault = "score" THEN "except" ELSE "scored"
    /\ UNCHANGED <<an_calls, audio_file, temp_path, tmp_files, an_transcription,
                   an_ret, model_loaded, classifier_loaded, an_env, an_results,
                   sc_vars, fb_vars, tx_vars, pg_vars,
                   fr_vars, cc_vars>>

\* os.unlink(temp_path), in the try, before the results dict is built
CleanUp ==
    /\ an_pc = "scored"
    /\ tmp_files' = tmp_files \ {temp_path}
    /\ an_pc' = "unlinked"
    /\ UNCHANGED <<an_calls, audio_file, temp_path, an_transcription, an_ret,
                   model_loaded, classifier_loaded, an_env, an_locals,
                   an_results, st_shown, sc_vars, fb_vars, tx_vars, pg_vars,
                   fr_vars, cc_vars>>

\* return {...}: building the dict converts the arrays and calls
\* librosa.times_like once more, still inside the try
ReturnResults ==
    /\ an_pc = "unlinked"
    /\ IF an_env.fault = "results"
       THEN /\ an_pc' = "except"
            /\ UNCHANGED <<an_ret, an_results>>
       ELSE /\ an_pc' = "done"
            /\ an_ret' = "dict"
            /\ an_results' = Some(results(an_locals, an_transcription[1]))
    /\ UNCHANGED <<an_calls, audio_file, temp_path, tmp_files, an_transcription,
                   model_loaded, classifier_loaded, an_env, an_locals,
                   st_shown, sc_vars, fb_vars, tx_vars, pg_vars,
                   fr_vars, cc_vars>>

\* except Exception: st.error, os.unlink(temp_path), return None; unlinking
\* a file that is already gone raises FileNotFoundError out of the handler
HandleError ==
    /\ an_pc = "except"
    /\ st_shown' = st_shown \cup {<<"error", "Error analyzing speech: e">>}
    /\ IF temp_path \in tmp_files
       THEN /\ tmp_files' = tmp_files \ {temp_path}
            /\ an_ret' = "None"
       ELSE /\ UNCHANGED tmp_files
            /\ an_ret' = "raised"
    /\ an_pc' = "done"
    /\ UNCHANGED <<an_calls, audio_file, temp_path, an_transcription,
                   model_loaded, classifier_loaded, an_env, an_locals,
                   an_results, sc_vars, fb_vars, tx_vars, pg_vars,
                   fr_vars, cc_vars>>

\* the steps of a call that was entered
AnalyzeStep ==
    \/ WriteInput
    \/ ConvertAudio
    \/ LoadAudio
    \/ TranscribeAudio
    \/ ExtractFeatures
    \/ DetectEmotionAndScore
    \/ CleanUp
    \/ ReturnResults
    \/ HandleError

AnalyzeNext ==
    \/ \E kind \in AudioFileKinds : AnalyzeEnter(kind)
    \/ AnalyzeStep

SpecAnalyze == AnalyzeInit /\ [][AnalyzeNext]_vars

(***************************************************************************)
(* display_practice_page: the handler of the "Analyze My Speech" button.   *)
(* It analyzes the recording, then the benchmark audio of the exercise if  *)
(* there is one, generates the feedback and stores and displays it.        *)
(***************************************************************************)

\* benchmark: the exercise has no benchmark_audio_path ("none", also for a
\* custom text), a path to a file that does not exist ("missing"), or a
\* path to a file ("file"); text: the text to read, possibly empty
Exercises ==
    [benchmark : {"none", "missing", "file"}, text : {<<>>, TextTheFoxBang}]

PageInit ==
    /\ pg_pc = "clicked"
    /\ pg_exercise \in Exercises
    /\ pg_analysis = None
    /\ pg_benchmark = None
    /\ an_pc = "ready"
    /\ an_calls = 0
    /\ audio_file = "none"
    /\ temp_path = 0
    /\ tmp_files = {}
    /\ an_transcription = None
    /\ an_ret = "none"
    /\ model_loaded \in BOOLEAN
    /\ classifier_loaded \in BOOLEAN
    /\ an_env = <<>>
    /\ an_locals = <<>>
    /\ an_results = None
    /\ st_shown = {}
    /\ ScoreIdle
    /\ FeedbackIdle
    /\ TextIdle
    /\ FramesIdle
    /\ ConcurrentIdle

\* analysis_results = analyzer.analyze(audio_file), audio_file a BytesIO
AnalyzeRecording ==
    /\ pg_pc = "clicked"
    /\ \E env \in Environments : AnalyzeCall("BytesIO", env)
    /\ pg_pc' = "analysis"
    /\ UNCHANGED <<pg_exercise, pg_analysis, pg_benchmark, st_shown,
                   sc_vars, fb_vars, tx_vars,
                   fr_vars, cc_vars>>

\* if analysis_results: ... else: st.error("Error analyzing speech"); an
\* exception out of analyze is caught by the handler's own except
ReceiveAnalysis ==
    /\ pg_pc = "analysis"
    /\ an_pc = "done"
    /\ IF an_ret = "raised"
       THEN /\ st_shown' = st_shown \cup {<<"error", "Error processing audio: e">>}
            /\ pg_pc' = "end"
            /\ UNCHANGED pg_analysis
       ELSE IF TruthyDict(an_results)
       THEN /\ pg_analysis' = an_results
            /\ pg_pc' = "benchmark"
            /\ UNCHANGED st_shown
       ELSE /\ st_shown' = st_shown \cup {<<"error", "Error analyzing speech">>}
            /\ pg_pc' = "end"
            /\ UNCHANGED pg_analysis
    /\ UNCHANGED <<pg_exercise, pg_benchmark, an_pc, an_calls, an_ret,
                   audio_file, temp_path, tmp_files, an_transcription,
                   model_loaded, classifier_loaded, an_env, an_locals,
                   an_results, sc_vars, fb_vars, tx_vars,
                   fr_vars, cc_vars>>

\* benchmark_analysis = None; analyzer.analyze(benchmark_path) when the
\* exercise has a benchmark path and the file exists
AnalyzeBenchmark ==
    /\ pg_pc = "benchmark"
    /\ \/ /\ pg_exercise.benchmark = "file"
          /\ \E env \in Environments : AnalyzeCall("Path", env)
          /\ pg_pc' = "benchmark_analysis"
       \/ /\ pg_exercise.benchmark # "file"
          /\ pg_pc' = "feedback"
          /\ UNCHANGED <<an_pc, an_calls, an_ret, audio_file, temp_path,
                         tmp_files, an_transcription, model_loaded,
                         classifier_loaded, an_env, an_locals, an_results>>
    /\ UNCHANGED <<pg_exercise, pg_analysis, pg_benchmark, st_shown,
                   sc_vars, fb_vars, tx_vars,
                   fr_vars, cc_vars>>

\* the value analyze returned is the benchmark analysis; an exception out
\* of analyze is caught and warned about, and there is none
ReceiveBenchmark ==
    /\ pg_pc = "benchmark_analysis"
    /\ an_pc = "done"
    /\ IF an_ret = "raised"
       THEN /\ st_shown' = st_shown
                   \cup {<<"warning", "Could not analyze benchmark audio: e">>}
            /\ pg_benchmark' = None
       ELSE /\ pg_benchmark' = an_results
            /\ UNCHANGED st_shown
    /\ pg_pc' = "feedback"
    /\ UNCHANGED <<pg_exercise, pg_analysis, an_pc, an_calls, an_ret,
                   audio_file, temp_path, tmp_files, an_transcription,
                   model_loaded, classifier_loaded, an_env, an_locals,
                   an_results, sc_vars, fb_vars, tx_vars,
                   fr_vars, cc_vars>>

\* target_text = exercise_text if exercise_text else None
target_text_of(exercise_text) ==
    IF Len(exercise_text) > 0 THEN Some(exercise_text) ELSE None

\* if benchmark_analysis: feedback_generator.generate_comparative(...)
\* else: feedback_generator.generate(...)
GenerateFeedback ==
    /\ pg_pc = "feedback"
    /\ fb_pc = "idle"
    /\ fb_user' = pg_analysis[1]
    /\ fb_bench' = pg_benchmark
    /\ fb_target' = target_text_of(pg_exercise.text)
    /\ IF TruthyDict(pg_benchmark)
       THEN /\ fb_op' = "generate_comparative"
            /\ fb_report' = generate_comparative(pg_analysis[1], pg_benchmark,
                                target_text_of(pg_exercise.text))
       ELSE /\ fb_op' = "generate"
            /\ fb_report' = generate(pg_analysis[1],
                                target_text_of(pg_exercise.text))
    /\ fb_pc' = "return"
    /\ pg_pc' = "saving"
    /\ UNCHANGED <<pg_exercise, pg_analysis, pg_benchmark, sc_vars, an_vars,
                   tx_vars,
                   fr_vars, cc_vars>>

\* save_audio_file, save_recording; with a recording_id the analysis, the
\* charts and the feedback are displayed, without one st.error
SaveAndDisplay ==
    /\ pg_pc = "saving"
    /\ \E stored \in BOOLEAN :
           IF stored
           THEN /\ pg_pc' = "displayed"
                /\ UNCHANGED st_shown
           ELSE /\ pg_pc' = "end"
                /\ st_shown' = st_shown
                       \cup {<<"error", "Error storing analysis results">>}
    /\ UNCHANGED <<pg_exercise, pg_analysis, pg_benchmark, an_pc, an_calls,
                   an_ret, audio_file, temp_path, tmp_files, an_transcription,
                   model_loaded, classifier_loaded, an_env, an_locals,
                   an_results, sc_vars, fb_vars, tx_vars,
                   fr_vars, cc_vars>>

PageNext ==
    \/ AnalyzeRecording
    \/ ReceiveAnalysis
    \/ AnalyzeBenchmark
    \/ ReceiveBenchmark
    \/ GenerateFeedback
    \/ SaveAndDisplay
    \/ AnalyzeStep

SpecPage == PageInit /\ [][PageNext]_vars

\* the feedback generator called on its own or by the page
ComparisonInit == FeedbackInit \/ PageInit
ComparisonNext == FeedbackNext \/ PageNext
SpecComparison == ComparisonInit /\ [][ComparisonNext]_vars

(***************************************************************************)
(* Claims about analyze, checked under SpecAnalyze                          *)
(***************************************************************************)

AnalyzeEnded == an_pc = "done"

\* C1: on every exit path of analyze after the temporary file was created
\* (normal return, an exception while writing the input bytes, conversion
\* failure, load or feature-extraction failure, transcription or emotion
\* failure) the temporary file no longer exists when analyze returns or
\* raises.
C1_TempFileDeletedOnExit ==
    AnalyzeEnded => temp_path \notin tmp_files

\* a caller's file-like object was analyzed and the environment raised
\* nothing of its own
AnalyzedUndisturbed ==
    an_pc = "done" /\ has_getvalue(audio_file) /\ an_env.fault = "none"

\* C14: for audio of no samples and for all-silence audio analyze returns a
\* descriptor set, not the failure result, with the descriptors at zero,
\* also when the energy series is empty or its maximum is 0, and with a
\* speech rate of 0 for a duration of 0.
C14_DegenerateAudioAnalyzed ==
    AnalyzedUndisturbed /\ an_env.audio \in {"empty", "silence"} =>
        /\ an_ret = "dict"
        /\ an_results # None
        /\ an_results[1].pitch_variability = 0
        /\ an_results[1].energy_variability = 0
        /\ an_results[1].speech_rate = 0
        /\ an_results[1].pause_ratio = 0
        /\ an_results[1].emphasis_ratio = 0

(***************************************************************************)
(* Claims about the feedback generator, checked under SpecFeedback          *)
(***************************************************************************)

GenerateReturned == fb_pc = "return" /\ fb_op = "generate"

\* generate_comparative returned and took the comparative branch
ComparativeReturned ==
    fb_pc = "return" /\ fb_op = "generate_comparative" /\ TruthyDict(fb_bench)

\* the benchmark was the user's own analysis
SelfCompared == ComparativeReturned /\ fb_bench = Some(fb_user)

PitchSentences ==
    {"Your pitch variation was excellent, creating an engaging and dynamic delivery.",
     "You demonstrated good pitch variation, which helped maintain listener interest.",
     "Your pitch variation was adequate but could be improved to create a more engaging delivery.",
     "Your speech had limited pitch variation, which may come across as monotonous."}
EnergySentences ==
    {"Your volume dynamics were excellent, effectively emphasizing important points.",
     "You showed good volume variation, which helped highlight key parts of your speech.",
     "Your volume variation was moderate. Consider using more dynamic volume to emphasize important points.",
     "Your speech had limited volume variation, which may reduce impact and engagement."}
PaceSentences ==
    {"Your speaking pace was very slow, which might cause listeners to lose interest.",
     "Your speaking pace was somewhat slow. Consider speaking slightly faster for more engagement.",
     "Your speaking pace was very fast, which might make it difficult for listeners to follow.",
     "Your speaking pace was somewhat fast. Consider slowing down slightly for better clarity.",
     "Your speaking pace was well-balanced, making it easy for listeners to follow."}
PauseSentences ==
    {"You had too many pauses in your speech, which might disrupt the flow.",
     "You used pauses effectively to emphasize key points.",
     "Your use of pauses was balanced, creating a natural speaking rhythm.",
     "You had few pauses in your speech. Strategic pauses can help emphasize important points.",
     "You had very few pauses, which might make your speech feel rushed."}
EmphasisSentences ==
    {"You emphasized key points effectively, which helps maintain listener attention.",
     "You used some emphasis in your speech, which helps highlight important information.",
     "Your speech had limited emphasis. Consider emphasizing key points more to increase impact."}
EmotionSentences ==
    {"Your speech primarily conveyed a " \o tone
        \o " tone, which may affect how your message is received." :
        tone \in {"Neutral", "Joy", "Anger", "Confident", "Enthusiasm",
                  "Sadness", "Fear"}}

GenericStrength == "Consistent delivery that provides a foundation to build upon"

\* C6: for every input, the all-zero neutral descriptor set, a pause ratio of
\* 1 and an empty dictionary included, the report of generate has exactly six
\* specific_feedback sentences, about pitch, energy, pace, pauses, emphasis
\* and emotion in this order, and its strengths and improvement_suggestions
\* are both non-empty.
C6_SixSentencesAndNonEmptyLists ==
    GenerateReturned =>
        /\ Len(fb_report.specific_feedback) = 6
        /\ fb_report.specific_feedback[1] \in PitchSentences
        /\ fb_report.specific_feedback[2] \in EnergySentences
        /\ fb_report.specific_feedback[3] \in PaceSentences
        /\ fb_report.specific_feedback[4] \in PauseSentences
        /\ fb_report.specific_feedback[5] \in EmphasisSentences
        /\ fb_report.specific_feedback[6] \in EmotionSentences
        /\ fb_report.strengths # <<>>
        /\ fb_report.improvement_suggestions # <<>>

\* generate returned for the empty dictionary, with only the generic strength
C6_Witness ==
    /\ GenerateReturned
    /\ DOMAIN fb_user = {}
    /\ fb_report.strengths = <<GenericStrength>>
    /\ Len(fb_report.specific_feedback) = 6

\* C7 as stated: the comparative report has the fields generate returns,
\* strengths among them, and a comparison with general, strengths, matches
\* and improvements.
C7_ComparativeHasGenerateFields ==
    ComparativeReturned =>
        /\ {"overall_assessment", "specific_feedback", "strengths",
            "improvement_suggestions", "comparison"} \subseteq DOMAIN fb_report
        /\ DOMAIN fb_report.comparison
               = {"general", "strengths", "matches", "improvements"}

\* C7: the comparative report has an overall_assessment, the
\* specific_feedback and the improvement_suggestions of generate for the same
\* user analysis (six sentences, a non-empty list), and a comparison with
\* general, strengths, matches and improvements; it has no strengths list of
\* its own, and content_accuracy is its only other field.
C7_ComparativeFields ==
    ComparativeReturned =>
        /\ DOMAIN fb_report \ {"content_accuracy"}
               = {"overall_assessment", "comparison", "specific_feedback",
                  "improvement_suggestions"}
        /\ "strengths" \notin DOMAIN fb_report
        /\ fb_report.specific_feedback
               = generate(fb_user, fb_target).specific_feedback
        /\ Len(fb_report.specific_feedback) = 6
        /\ fb_report.improvement_suggestions
               = generate(fb_user, fb_target).improvement_suggestions
        /\ fb_report.improvement_suggestions # <<>>
        /\ DOMAIN fb_report.comparison
               = {"general", "strengths", "matches", "improvements"}

\* a comparative report against another recording, where generate for the
\* same user analysis has strengths to report
C7_Witness ==
    /\ ComparativeReturned
    /\ fb_bench # Some(fb_user)
    /\ generate(fb_user, fb_target).strengths # <<GenericStrength>>
    /\ "comparison" \in DOMAIN fb_report

\* the similarity tier and percentage that open the comparative assessment
SimilarityClause(percent) ==
    "Your speech delivery "
    \o (IF percent >= 80 THEN "is very similar to"
        ELSE IF percent >= 60 THEN "has many similarities to"
        ELSE IF percent >= 40 THEN "shares some characteristics with"
        ELSE "differs significantly from")
    \o " the benchmark recording (" \o ToString(percent) \o "% match). "

\* the assessment of a recording compared with itself at the given percentage
SelfAssessment(percent) ==
    SimilarityClause(percent)
    \o "Your expressiveness closely matches the benchmark. "
    \o "Your speaking pace matches the benchmark well. "
    \o "Both you and the benchmark convey a "
    \o Get(fb_user, "primary_emotion", "neutral") \o " tone."

\* how many of the four compared values of the user analysis are 0 or absent
ZeroValues ==
    Cardinality({k \in {"expressiveness_score", "pitch_variability",
                        "energy_variability", "speech_rate"} :
                    Get(fb_user, k, 0) = 0})

\* C8 as stated: comparing any descriptor set with itself yields a similarity
\* of 100%.
C8_SelfSimilarityIs100 ==
    SelfCompared => fb_report.overall_assessment = SelfAssessment(100)

\* C8: comparing a descriptor set with itself yields a similarity of 100%
\* when its expressiveness score, pitch variability, energy variability and
\* speech rate are all positive; each of the four that is 0 or absent lowers
\* the similarity by 10 points, down to 60% when all four are.
C8_SelfSimilarity ==
    SelfCompared =>
        fb_report.overall_assessment = SelfAssessment(100 - 10 * ZeroValues)

\* a silent recording without an expressiveness score, compared with itself
C8_Witness ==
    /\ SelfCompared
    /\ ZeroValues = 4
    /\ fb_report.overall_assessment = SelfAssessment(60)

\* the six matches of a recording compared with itself
SelfMatches ==
    <<"Your overall expressiveness matches the benchmark",
      "Your pitch variation closely matches the benchmark",
      "Your volume variation closely matches the benchmark",
      "Your speaking pace closely matches the benchmark",
      "Your use of pauses closely matches the benchmark",
      "Your emotional tone ("
          \o capitalize(Get(fb_user, "primary_emotion", "neutral"))
          \o ") matches the benchmark">>

\* C9: comparing a descriptor set with itself gives exactly six matches
\* (expressiveness, pitch, volume, pace, pauses, emotional tone) and empty
\* comparison strengths and improvements.
C9_SelfComparisonSixMatches ==
    SelfCompared =>
        /\ fb_report.comparison.matches = SelfMatches
        /\ fb_report.comparison.strengths = <<>>
        /\ fb_report.comparison.improvements = <<>>

\* a recording whose every compared value is 0, compared with itself
C9_Witness ==
    /\ SelfCompared
    /\ Get(fb_user, "expressiveness_score", 0) = 0
    /\ Get(fb_user, "pitch_variability", 0) = 0
    /\ Get(fb_user, "speech_rate", 0) = 0
    /\ Len(fb_report.comparison.matches) = 6

\* the transcriptions transcribe_audio returns when there is no transcript
TranscriptionSentinels == {TranscriptionUnavailable, TranscriptionFailed}

\* C10: a report has content_accuracy only when a target text was supplied
\* and a transcription exists: with an empty transcription or one of the
\* sentinel strings of transcribe_audio, the report is produced without it.
C10_AccuracyOnlyWithTranscript ==
    fb_pc = "return" =>
        ("content_accuracy" \in DOMAIN fb_report =>
            /\ TruthyText(fb_target)
            /\ Get(fb_user, "transcription", <<>>) # <<>>
            /\ Get(fb_user, "transcription", <<>>) \notin TranscriptionSentinels)


(***************************************************************************)
(* The text functions of the feedback generator called on their own:       *)
(* _normalize_text on both texts, as _evaluate_content_accuracy begins,    *)
(* and _evaluate_content_accuracy itself.                                  *)
(***************************************************************************)

\* the longest text of the exhaustive part of the inputs
MaxTextLen == 3

\* the characters of the exhaustive part: a lowercase and an uppercase
\* letter, a space, a punctuation character, and the underscore
TextAlphabet == {"a", "B", " ", ",", "_"}

\* every text over the alphabet of at most n characters
ShortTexts(n) == UNION {[1..k -> TextAlphabet] : k \in 0..n}

TextHelloWorld ==
    <<"H", "e", "l", "l", "o", ",", " ", "W", "o", "r", "l", "d", "!">>
TextHelloWorldSpaced ==
    <<"h", "e", "l", "l", "o", " ", " ", " ", "w", "o", "r", "l", "d", ".">>
TextTheQuic == <<"t", "h", "e", " ", "q", "u", "i", "c">>
TextTheQuickBrown ==
    <<"T", "h", "e", " ", "q", "u", "i", "c", "k", " ", "b", "r", "o", "w", "n">>
TextElevenWords ==
    <<"a", " ", "b", " ", "c", " ", "d", " ", "e", " ", "f", " ", "g", " ",
      "h", " ", "i", " ", "j", " ", "k">>
TextZ == <<"z">>
TextSnakeCase == <<"s", "n", "a", "k", "e", "_", "c", "a", "s", "e">>
TextSnakeSpaceCase == <<"s", "n", "a", "k", "e", " ", "c", "a", "s", "e">>
TextTabbed == <<"\t", "A", " ", "\n", "a", "?", "\t">>

\* pairs <<transcription, target_text>> of longer texts
TextPairs ==
    {<<TextHelloWorld, TextHelloWorldSpaced>>, <<TextAFox, TextTheFoxBang>>,
     <<TextTheFox, TextTheFoxBang>>, <<TextTheQuic, TextTheQuickBrown>>,
     <<TextZ, TextElevenWords>>, <<TextElevenWords, TextZ>>,
     <<TextElevenWords, TextElevenWords>>,
     <<TextSnakeCase, TextSnakeSpaceCase>>, <<TextTabbed, TextAFox>>,
     <<TranscriptionFailed, TextTheFoxBang>>}

TextInit ==
    /\ tx_pc = "call"
    /\ tx_op = "none"
    /\ tx_result = <<>>
    /\ \/ /\ tx_transcription \in ShortTexts(MaxTextLen)
          /\ tx_target_text \in ShortTexts(2)
       \/ \E pair \in TextPairs :
              /\ tx_transcription = pair[1]
              /\ tx_target_text = pair[2]
    /\ ScoreIdle
    /\ FeedbackIdle
    /\ AnalyzeIdle
    /\ PageIdle
    /\ FramesIdle
    /\ ConcurrentIdle

\* trans_norm = self._normalize_text(transcription);
\* target_norm = self._normalize_text(target_text)
NormalizeText ==
    /\ tx_pc = "call"
    /\ tx_result' = [trans_norm |-> _normalize_text(tx_transcription),
                     target_norm |-> _normalize_text(tx_target_text)]
    /\ tx_op' = "_normalize_text"
    /\ tx_pc' = "return"
    /\ UNCHANGED <<tx_transcription, tx_target_text, sc_vars, fb_vars, an_vars, pg_vars,
                   fr_vars, cc_vars>>

\* self._evaluate_content_accuracy(transcription, target_text)
EvaluateContentAccuracy ==
    /\ tx_pc = "call"
    /\ tx_result' = _evaluate_content_accuracy(tx_transcription, tx_target_text)
    /\ tx_op' = "_evaluate_content_accuracy"
    /\ tx_pc' = "return"
    /\ UNCHANGED <<tx_transcription, tx_target_text, sc_vars, fb_vars, an_vars, pg_vars,
                   fr_vars, cc_vars>>

TextNext == NormalizeText \/ EvaluateContentAccuracy

SpecText == TextInit /\ [][TextNext]_vars

(***************************************************************************)
(* Claims about the text functions, checked under SpecText                  *)
(***************************************************************************)

AccuracyReturned == tx_pc = "return" /\ tx_op = "_evaluate_content_accuracy"
NormalizeReturned == tx_pc = "return" /\ tx_op = "_normalize_text"

\* the sequence similarity of the two normalized texts, <<numerator,
\* denominator>>
Similarity ==
    ratio(_normalize_text(tx_transcription), _normalize_text(tx_target_text))

\* the sentence of an accuracy tier
TierSentence(score) ==
    IF score >= 90
    THEN "Your content was delivered with excellent accuracy, closely matching the intended text."
    ELSE IF score >= 70
    THEN "Your content was delivered with good accuracy, though some words were missed or added."
    ELSE IF score >= 50
    THEN "Your content had moderate accuracy. Pay attention to key words that were missed."
    ELSE "Your content had significant deviations from the intended text. Focus on delivering the key points accurately."

\* C11: for every transcription/target pair, accuracy_score is the nearest
\* integer to 100 times the similarity ratio, and the feedback sentence is
\* the one of the tier (>= 90, >= 70, >= 50, else) of that rounded value.
C11_AccuracyIsRounded ==
    AccuracyReturned =>
        /\ tx_result.accuracy_score
               = RoundDiv(100 * Similarity[1], Similarity[2])
        /\ tx_result.feedback
               = TierSentence(RoundDiv(100 * Similarity[1], Similarity[2]))


\* the words of a text: its maximal runs of characters other than spaces
WordsOf(text) ==
    {SubSeq(text, i, j) : <<i, j>> \in
        {p \in (1..Len(text)) \X (1..Len(text)) :
            /\ p[1] <= p[2]
            /\ \A k \in p[1]..p[2] : ~IsSpaceChar(text[k])
            /\ p[1] = 1 \/ IsSpaceChar(text[p[1] - 1])
            /\ p[2] = Len(text) \/ IsSpaceChar(text[p[2] + 1])}}

TargetWords == WordsOf(_normalize_text(tx_target_text))
TranscriptionWords == WordsOf(_normalize_text(tx_transcription))

\* C12: for every transcription/target pair, missing_words and added_words
\* are disjoint, missing_words holds only words of the normalized target
\* that the normalized transcription lacks, added_words only words of the
\* transcription that the target lacks, and each has at most 10 entries.
C12_WordListsDisjointAndCapped ==
    AccuracyReturned =>
        /\ tx_result.missing_words \cap tx_result.added_words = {}
        /\ tx_result.missing_words \subseteq TargetWords \ TranscriptionWords
        /\ tx_result.added_words \subseteq TranscriptionWords \ TargetWords
        /\ Cardinality(tx_result.missing_words) <= 10
        /\ Cardinality(tx_result.added_words) <= 10

\* eleven words of the target are missing from the transcription, and ten
\* of them are returned
C12_Witness ==
    /\ AccuracyReturned
    /\ Cardinality(TargetWords \ TranscriptionWords) = 11
    /\ Cardinality(tx_result.missing_words) = 10
    /\ tx_result.added_words # {}


\* the punctuation characters of the texts drawn (string.punctuation holds
\* each of them, the underscore included)
Punctuation == {",", ".", "!", "?", "_"}

IsPunctuation(c) == c \in Punctuation
NotPunctuation(c) == ~IsPunctuation(c)

\* what is left of a text when case, punctuation and the length of the
\* whitespace runs are disregarded: its lowercased words in order
Skeleton(text) == split(lower(SelectSeq(text, NotPunctuation)))

Normalized(out) ==
    /\ \A i \in 1..Len(out) : ~IsPunctuation(out[i])
    /\ \A i \in 1..Len(out) : out[i] \notin Range(UpperCase)
    /\ \A i \in 1..Len(out) : IsSpaceChar(out[i]) => out[i] = " "
    /\ \A i \in 1..(Len(out) - 1) : ~(out[i] = " " /\ out[i + 1] = " ")
    /\ out # <<>> => out[1] # " " /\ out[Len(out)] # " "

\* C13: the output of _normalize_text holds no punctuation character, no
\* uppercase letter, no two adjacent spaces and no leading or trailing
\* space, normalizing it again changes nothing, and two texts that differ
\* only in case, punctuation and whitespace runs normalize to one string.
C13_NormalizeTextCanonical ==
    NormalizeReturned =>
        /\ Normalized(tx_result.trans_norm)
        /\ Normalized(tx_result.target_norm)
        /\ _normalize_text(tx_result.trans_norm) = tx_result.trans_norm
        /\ Skeleton(tx_transcription) = Skeleton(tx_target_text)
               => tx_result.trans_norm = tx_result.target_norm


(***************************************************************************)
(* Further claims about the feedback generator, checked under SpecFeedback  *)
(***************************************************************************)

\* the descriptor generate reads, 0 when the key is missing
Descriptor(key) == Get(fb_user, key, 0)
EmotionRead == Get(fb_user, "primary_emotion", "neutral")

Listed(list, sentence) == \E i \in 1..Len(list) : list[i] = sentence

PitchStrength == "Good pitch variation that creates an engaging delivery"
EnergyStrength == "Effective use of volume variation to emphasize points"
PaceStrength == "Well-balanced speaking pace that is easy to follow"
PauseStrength == "Strategic use of pauses to emphasize key points"
EmphasisStrength == "Good emphasis on important information"
EmotionStrengths ==
    {"Confident tone that enhances your message",
     "Joy tone that enhances your message",
     "Enthusiasm tone that enhances your message"}
SpecificStrengths ==
    {PitchStrength, EnergyStrength, PaceStrength, PauseStrength,
     EmphasisStrength} \cup EmotionStrengths

PitchSuggestion == "Vary your pitch more to make your delivery more engaging"
EnergySuggestion == "Use more dynamic volume to emphasize important points"
FasterSuggestion == "Increase your speaking pace slightly to maintain listener interest"
SlowerSuggestion == "Slow down your speaking pace slightly for better clarity"
MorePausesSuggestion == "Use strategic pauses to emphasize key points and give listeners time to absorb information"
FewerPausesSuggestion == "Reduce the number of pauses to maintain better flow in your speech"
EmphasisSuggestion == "Emphasize key points more to increase impact and highlight important information"
EmotionSuggestion == "Try to convey more enthusiasm and confidence in your delivery"
GenericSuggestion == "Practice with different styles to further enhance your already strong delivery"
SpecificSuggestions ==
    {PitchSuggestion, EnergySuggestion, FasterSuggestion, SlowerSuggestion,
     MorePausesSuggestion, FewerPausesSuggestion, EmphasisSuggestion,
     EmotionSuggestion}

HasStrength(sentence) == Listed(fb_report.strengths, sentence)
HasSuggestion(sentence) == Listed(fb_report.improvement_suggestions, sentence)

\* the generic sentence stands in a list exactly when no sentence about a
\* dimension does, and it is then the only entry
GenericFallbacks ==
    /\ HasStrength(GenericStrength)
           <=> ~\E sentence \in SpecificStrengths : HasStrength(sentence)
    /\ HasStrength(GenericStrength) => Len(fb_report.strengths) = 1
    /\ HasSuggestion(GenericSuggestion)
           <=> ~\E sentence \in SpecificSuggestions : HasSuggestion(sentence)
    /\ HasSuggestion(GenericSuggestion)
           => Len(fb_report.improvement_suggestions) = 1

\* pitch, energy, emphasis and emotion: listed as a strength from the good
\* bucket upwards, as a suggestion below it
OneSidedDimensions ==
    /\ HasStrength(PitchStrength) <=> Descriptor("pitch_variability") >= 300
    /\ HasSuggestion(PitchSuggestion) <=> Descriptor("pitch_variability") < 300
    /\ HasStrength(EnergyStrength) <=> Descriptor("energy_variability") >= 60
    /\ HasSuggestion(EnergySuggestion) <=> Descriptor("energy_variability") < 60
    /\ HasStrength(EmphasisStrength) <=> Descriptor("emphasis_ratio") >= 5
    /\ HasSuggestion(EmphasisSuggestion) <=> Descriptor("emphasis_ratio") < 5
    /\ (\E sentence \in EmotionStrengths : HasStrength(sentence))
           <=> EmotionRead \in {"confident", "joy", "enthusiasm"}
    /\ HasSuggestion(EmotionSuggestion)
           <=> EmotionRead \in {"neutral", "sadness", "fear"}

\* C18 as stated: every dimension at or above its good or optimal bucket
\* is listed in strengths, every dimension below it in
\* improvement_suggestions, and the generic sentence stands in a list
\* exactly when no dimension qualifies, as its only entry.
C18_GoodBucketRule ==
    GenerateReturned =>
        /\ OneSidedDimensions
        /\ HasStrength(PaceStrength) <=> Descriptor("speech_rate") >= 300
        /\ HasSuggestion(FasterSuggestion) \/ HasSuggestion(SlowerSuggestion)
               <=> Descriptor("speech_rate") < 300
        /\ HasStrength(PauseStrength) <=> Descriptor("pause_ratio") >= 15
        /\ HasSuggestion(MorePausesSuggestion) \/ HasSuggestion(FewerPausesSuggestion)
               <=> Descriptor("pause_ratio") < 15
        /\ GenericFallbacks

\* C18, amended: pace and pauses are a strength inside their optimal range
\* (3.0 to 4.0 syllables per second, a pause ratio of 0.15 to 0.25, ends
\* included) and a suggestion on either side of it; the other dimensions
\* and the generic sentences are as stated.
C18_OptimalRangeRule ==
    GenerateReturned =>
        /\ OneSidedDimensions
        /\ HasStrength(PaceStrength)
               <=> 300 <= Descriptor("speech_rate") /\ Descriptor("speech_rate") <= 400
        /\ HasSuggestion(FasterSuggestion) <=> Descriptor("speech_rate") < 300
        /\ HasSuggestion(SlowerSuggestion) <=> Descriptor("speech_rate") > 400
        /\ HasStrength(PauseStrength)
               <=> 15 <= Descriptor("pause_ratio") /\ Descriptor("pause_ratio") <= 25
        /\ HasSuggestion(MorePausesSuggestion) <=> Descriptor("pause_ratio") < 15
        /\ HasSuggestion(FewerPausesSuggestion) <=> Descriptor("pause_ratio") > 25
        /\ GenericFallbacks

\* a pace above the optimal range, not a strength and with the suggestion
\* to slow down, while every other dimension is a strength
C18_Witness ==
    /\ GenerateReturned
    /\ Descriptor("speech_rate") = 401
    /\ ~HasStrength(PaceStrength)
    /\ fb_report.improvement_suggestions = <<SlowerSuggestion>>
    /\ Len(fb_report.strengths) = 5


\* the sentence and the assessment clause of each bucket of the boundary
\* table: pitch low < 15, medium < 30, high >= 30, excellent >= 40
PitchByTable(pitch_var) ==
    IF pitch_var < 150
    THEN <<"Your speech had limited pitch variation, which may come across as monotonous.",
           "monotonous pitch">>
    ELSE IF pitch_var < 300
    THEN <<"Your pitch variation was adequate but could be improved to create a more engaging delivery.",
           "limited pitch variation">>
    ELSE IF pitch_var < 400
    THEN <<"You demonstrated good pitch variation, which helped maintain listener interest.",
           "good pitch variation">>
    ELSE <<"Your pitch variation was excellent, creating an engaging and dynamic delivery.",
           "varied pitch">>

\* energy low < 0.03, medium < 0.06, high >= 0.06, excellent >= 0.1
EnergyByTable(energy_var) ==
    IF energy_var < 30
    THEN <<"Your speech had limited volume variation, which may reduce impact and engagement.",
           "flat volume">>
    ELSE IF energy_var < 60
    THEN <<"Your volume variation was moderate. Consider using more dynamic volume to emphasize important points.",
           "limited volume variation">>
    ELSE IF energy_var < 100
    THEN <<"You showed good volume variation, which helped highlight key parts of your speech.",
           "good volume variation">>
    ELSE <<"Your volume dynamics were excellent, effectively emphasizing important points.",
           "dynamic volume">>

\* speech rate tooSlow < 2.0, slow < 2.5, fast >= 4.5, tooFast >= 5.0
PaceByTable(speech_rate) ==
    IF speech_rate < 200
    THEN <<"Your speaking pace was very slow, which might cause listeners to lose interest.",
           "very slow pace">>
    ELSE IF speech_rate < 250
    THEN <<"Your speaking pace was somewhat slow. Consider speaking slightly faster for more engagement.",
           "slow pace">>
    ELSE IF speech_rate < 450
    THEN <<"Your speaking pace was well-balanced, making it easy for listeners to follow.",
           "good pace">>
    ELSE IF speech_rate < 500
    THEN <<"Your speaking pace was somewhat fast. Consider slowing down slightly for better clarity.",
           "fast pace">>
    ELSE <<"Your speaking pace was very fast, which might make it difficult for listeners to follow.",
           "very fast pace">>

\* pause ratio low < 0.1, medium < 0.15, high < 0.25, excessive > 0.35
PauseByTable(pause_ratio) ==
    IF pause_ratio < 10
    THEN "You had very few pauses, which might make your speech feel rushed."
    ELSE IF pause_ratio < 15
    THEN "You had few pauses in your speech. Strategic pauses can help emphasize important points."
    ELSE IF pause_ratio < 25
    THEN "Your use of pauses was balanced, creating a natural speaking rhythm."
    ELSE IF pause_ratio > 35
    THEN "You had too many pauses in your speech, which might disrupt the flow."
    ELSE "You used pauses effectively to emphasize key points."

TierLabels ==
    {"very expressive", "expressive", "moderately expressive", "somewhat flat",
     "monotonous"}
Tones == {"Neutral", "Joy", "Anger", "Confident", "Enthusiasm", "Sadness", "Fear"}

Assessment(tier, pitch_desc, energy_desc, pace_desc, tone) ==
    "Your speech was " \o tier \o ", with " \o pitch_desc \o " and "
    \o energy_desc \o ", delivered at a " \o pace_desc
    \o ". Your delivery primarily conveyed a " \o tone \o " tone."

\* the pitch, energy and pace clauses of the assessment are those of the table
ClausesByTable ==
    \E tier \in TierLabels, tone \in Tones :
        fb_report.overall_assessment =
            Assessment(tier, PitchByTable(Descriptor("pitch_variability"))[2],
                       EnergyByTable(Descriptor("energy_variability"))[2],
                       PaceByTable(Descriptor("speech_rate"))[2], tone)

\* C19: for every value, each exact boundary value included, the pitch,
\* energy, pace and pause sentences of specific_feedback and the pitch,
\* energy and pace clauses of the overall assessment are the ones the
\* boundary table selects, the pause sentence being the excessive one only
\* for a pause ratio above 0.35.
C19_BoundaryTable ==
    GenerateReturned =>
        /\ fb_report.specific_feedback[1] = PitchByTable(Descriptor("pitch_variability"))[1]
        /\ fb_report.specific_feedback[2] = EnergyByTable(Descriptor("energy_variability"))[1]
        /\ fb_report.specific_feedback[3] = PaceByTable(Descriptor("speech_rate"))[1]
        /\ fb_report.specific_feedback[4] = PauseByTable(Descriptor("pause_ratio"))
        /\ ClausesByTable


\* the tier of an expressiveness score, in 1/3000 of a point
TierByScore(score) ==
    IF score >= 80 * One THEN "very expressive"
    ELSE IF score >= 60 * One THEN "expressive"
    ELSE IF score >= 40 * One THEN "moderately expressive"
    ELSE IF score >= 20 * One THEN "somewhat flat"
    ELSE "monotonous"

ToneOf(emotion) ==
    CASE emotion = "neutral" -> "Neutral"
      [] emotion = "joy" -> "Joy"
      [] emotion = "anger" -> "Anger"
      [] emotion = "confident" -> "Confident"
      [] emotion = "enthusiasm" -> "Enthusiasm"
      [] emotion = "sadness" -> "Sadness"
      [] emotion = "fear" -> "Fear"

PitchClauses ==
    {"varied pitch", "good pitch variation", "limited pitch variation",
     "monotonous pitch"}
EnergyClauses ==
    {"dynamic volume", "good volume variation", "limited volume variation",
     "flat volume"}
PaceClauses ==
    {"very slow pace", "slow pace", "very fast pace", "fast pace", "good pace"}

ScenarioAssessment ==
    "Your speech was very expressive, with varied pitch and dynamic volume, delivered at a good pace. Your delivery primarily conveyed a Confident tone."

\* C20: the assessment names the tier of the score (>= 80 very expressive,
\* >= 60 expressive, >= 40 moderately expressive, >= 20 somewhat flat,
\* otherwise monotonous), then a pitch, an energy and a pace clause and the
\* primary emotion, in this order; the scenario descriptors score 83.5 and
\* are assessed as very expressive.
C20_TierThenClauses ==
    GenerateReturned =>
        /\ \E pitch_desc \in PitchClauses, energy_desc \in EnergyClauses,
                pace_desc \in PaceClauses :
              fb_report.overall_assessment =
                  Assessment(TierByScore(Descriptor("expressiveness_score")),
                             pitch_desc, energy_desc, pace_desc,
                             ToneOf(EmotionRead))
        /\ fb_user = Scenario =>
              /\ 2 * fb_user.expressiveness_score = 167 * One
              /\ fb_report.overall_assessment = ScenarioAssessment

\* generate returned for the scenario, whose score is 83.5
C20_Witness ==
    /\ GenerateReturned
    /\ fb_user = Scenario
    /\ 2 * fb_user.expressiveness_score = 167 * One
    /\ fb_report.overall_assessment = ScenarioAssessment


(***************************************************************************)
(* Claims about the page pipeline, checked under SpecPage                   *)
(***************************************************************************)

\* the keys of the dict analyze returns
ResultKeys ==
    {"pitch", "pitch_timestamps", "energy", "energy_timestamps",
     "pitch_variability", "energy_variability", "speech_rate", "tempo",
     "pause_ratio", "emphasis_ratio", "duration", "estimated_syllables",
     "transcription", "emotions", "primary_emotion", "expressiveness_score"}

\* the recording handed to analyze holds bytes that cannot be decoded (the
\* benchmark is analyzed only after a recording that could be)
RecordingCorrupt ==
    /\ an_calls = 1
    /\ has_getvalue(audio_file)
    /\ an_env.audio = "corrupt"
    /\ an_env.fault # "write"

ErrorShown == \E message \in st_shown : message[1] = "error"

\* C15: when the recording cannot be decoded, analyze returns no descriptor
\* set (None, and whatever it returns is never a dict with only some of the
\* fields), the page generates no feedback report for the recording, and
\* an error is shown.
C15_DecodeFailureAborts ==
    /\ an_results # None => DOMAIN an_results[1] = ResultKeys
    /\ RecordingCorrupt =>
          /\ an_results = None
          /\ pg_analysis = None
          /\ fb_pc = "idle" /\ fb_report = <<>>
          /\ pg_pc \in {"analysis", "end"}
          /\ an_pc = "done" => an_ret = "None" /\ ErrorShown
          /\ pg_pc = "end" =>
                {<<"error", "Error analyzing speech: e">>,
                 <<"error", "Error analyzing speech">>} \subseteq st_shown

\* the handler ended after a recording that could not be decoded
C15_Witness ==
    /\ RecordingCorrupt
    /\ pg_pc = "end"
    /\ an_ret = "None"
    /\ tmp_files = {}
    /\ fb_pc = "idle"
    /\ ErrorShown


(***************************************************************************)
(* Claims about the collaborators of analyze, checked under SpecAnalyze     *)
(***************************************************************************)

\* the speech-to-text model is not loaded or its call raises
TranscriptionFails == ~model_loaded \/ an_env.stt_raises

\* the emotion classifier is not loaded or its call raises
ClassificationFails == ~classifier_loaded \/ an_env.classifier_raises

\* the score of the returned descriptors with the fallback confidence 1.0
ScoreWithNeutral ==
    calculate_expressiveness_score(
        an_results[1].pitch_variability, an_results[1].energy_variability,
        an_results[1].speech_rate, an_results[1].pause_ratio, 100)

\* C16: a transcription or emotion model that is not loaded or that raises
\* does not end the analysis: transcribe_audio returns a sentinel string,
\* detect_emotion returns ({"neutral": 1.0}, "neutral"), and for audio that
\* can be analyzed analyze returns the complete descriptor set, with the
\* expressiveness score computed from these defaults.
C16_CollaboratorFailureNonFatal ==
    /\ an_transcription # None /\ TranscriptionFails
          => an_transcription[1] \in TranscriptionSentinels
    /\ "emotions" \in DOMAIN an_locals /\ ClassificationFails
          => an_locals.emotions = NeutralOnly /\ an_locals.primary_emotion = "neutral"
    /\ AnalyzedUndisturbed /\ an_env.audio \in {"speech", "silence"}
          => /\ an_ret = "dict"
             /\ DOMAIN an_results[1] = ResultKeys
             /\ TranscriptionFails
                   => an_results[1].transcription \in TranscriptionSentinels
             /\ ClassificationFails
                   => /\ an_results[1].emotions = NeutralOnly
                      /\ an_results[1].primary_emotion = "neutral"
                      /\ an_results[1].expressiveness_score = ScoreWithNeutral

\* a spoken recording was analyzed while transcribing and classifying both
\* raised
C16_Witness ==
    /\ AnalyzedUndisturbed
    /\ an_env.audio = "speech"
    /\ model_loaded /\ an_env.stt_raises
    /\ classifier_loaded /\ an_env.classifier_raises
    /\ an_ret = "dict"
    /\ an_results[1].transcription = TranscriptionFailed
    /\ an_results[1].emotions = NeutralOnly
    /\ an_results[1].expressiveness_score = ScoreWithNeutral
    /\ {<<"warning", "Transcription error">>,
        <<"warning", "Emotion detection error">>} \subseteq st_shown


(***************************************************************************)
(* Claims about a missing benchmark, checked under SpecComparison           *)
(***************************************************************************)

\* generate_comparative returned for a benchmark that is None or empty
ReturnedWithoutBenchmark ==
    /\ fb_pc = "return"
    /\ fb_op = "generate_comparative"
    /\ fb_bench = None \/ DOMAIN fb_bench[1] = {}

\* the page has no benchmark analysis: the exercise names no benchmark
\* file that exists, or analyzing it raised or returned None
BenchmarkUnavailable ==
    /\ pg_pc \in {"feedback", "saving", "displayed"}
    /\ \/ pg_exercise.benchmark # "file"
       \/ an_calls = 2 /\ an_ret \in {"raised", "None"}

\* C17: called with a benchmark that is None or empty, generate_comparative
\* returns the report generate returns for the same analysis and target
\* text; and in the page a benchmark that is missing or whose analysis
\* fails leads to generate, with the analysis of the recording kept and
\* reported.
C17_FallsBackToGenerate ==
    /\ ReturnedWithoutBenchmark => fb_report = generate(fb_user, fb_target)
    /\ BenchmarkUnavailable =>
          /\ pg_benchmark = None
          /\ pg_analysis # None
          /\ DOMAIN pg_analysis[1] = ResultKeys
          /\ pg_pc \in {"saving", "displayed"} =>
                /\ fb_pc = "return"
                /\ fb_op = "generate"
                /\ fb_user = pg_analysis[1]
                /\ fb_report = generate(pg_analysis[1],
                                        target_text_of(pg_exercise.text))
                /\ "comparison" \notin DOMAIN fb_report

\* the page displayed the feedback of generate after the analysis of the
\* benchmark file raised
C17_Witness ==
    /\ pg_pc = "displayed"
    /\ pg_exercise.benchmark = "file"
    /\ an_calls = 2 /\ an_ret = "raised"
    /\ <<"warning", "Could not analyze benchmark audio: e">> \in st_shown
    /\ fb_op = "generate"
    /\ fb_user = pg_analysis[1]
    /\ "strengths" \in DOMAIN fb_report


-----------------------------------------------------------------------------
\* Claims about the lists of _generate_comparison, checked under SpecFeedback

\* the benchmark's value of a descriptor, 0 when the key is absent
Benchmark(key) == Get(fb_bench[1], key, 0)

\* the sentences of one dimension of the comparison, by their role
ComparedSentences ==
    [pitch_variability |->
        [match |-> {"Your pitch variation closely matches the benchmark"},
         strength |-> {"Your pitch variation is higher than the benchmark, which may increase engagement"},
         overdone |-> {"Your pitch variation is higher than the benchmark - consider a more controlled delivery"},
         toward |-> {"Increase your pitch variation to match the benchmark for better engagement"},
         general |-> {}],
     energy_variability |->
        [match |-> {"Your volume variation closely matches the benchmark"},
         strength |-> {"Your dynamic volume use is more pronounced than the benchmark"},
         overdone |-> {"Your volume variation is higher than the benchmark - consider a more controlled delivery"},
         toward |-> {"Increase your volume variation to match the benchmark for better emphasis"},
         general |-> {}],
     speech_rate |->
        [match |-> {"Your speaking pace closely matches the benchmark"},
         strength |-> {},
         overdone |-> {"Slow down your speaking pace to match the benchmark for better clarity"},
         toward |-> {"Increase your speaking pace to match the benchmark for better engagement"},
         general |->
            {"Your speaking pace (" \o Format1f(Descriptor("speech_rate"), 100)
             \o " syl/sec) is " \o word \o " than the benchmark ("
             \o Format1f(Benchmark("speech_rate"), 100) \o " syl/sec)." :
                word \in {"faster", "slower"}}],
     pause_ratio |->
        [match |-> {"Your use of pauses closely matches the benchmark"},
         strength |-> {},
         overdone |-> {"Reduce your pauses to maintain better flow like the benchmark"},
         toward |-> {"Use more strategic pauses like the benchmark to emphasize key points"},
         general |->
            {"You use more pauses than the benchmark, which may affect your speaking rhythm.",
             "You use fewer pauses than the benchmark, which may affect your emphasis."}]]

\* a list of the comparison holds one of the sentences
Compared(list, sentences) ==
    \E i \in 1..Len(fb_report.comparison[list]) :
        fb_report.comparison[list][i] \in sentences

\* the relative difference |user - benchmark| / benchmark exceeds percent %
Beyond(key, percent) ==
    /\ Benchmark(key) > 0
    /\ 100 * Abs(Descriptor(key) - Benchmark(key)) > percent * Benchmark(key)

Tolerance(key) == IF key = "speech_rate" THEN 10 ELSE 20

\* the user's value is in the high bucket of the dimension while the
\* benchmark's is below it
OverdoneCase(key) ==
    /\ Descriptor(key) > thresholds[key].high
    /\ Benchmark(key) < thresholds[key].high

\* C21: for each of pitch, energy and pause ratio, a user value above the
\* benchmark beyond the tolerance is listed among the strengths, unless the
\* user's value is in the high bucket while the benchmark's is not, and then
\* it is listed among the improvements.
C21_AboveBenchmarkIsStrength ==
    ComparativeReturned =>
        \A key \in {"pitch_variability", "energy_variability", "pause_ratio"} :
            (Beyond(key, 20) /\ Descriptor(key) > Benchmark(key)) =>
                IF OverdoneCase(key)
                THEN /\ Compared("improvements", ComparedSentences[key].overdone)
                     /\ ~Compared("strengths", ComparedSentences[key].strength)
                ELSE Compared("strengths", ComparedSentences[key].strength)

\* C22: for each of pitch, energy and pause ratio, a user value below the
\* benchmark beyond the tolerance is listed among the improvements, unless
\* the benchmark's value is below the good bucket of the dimension, and then
\* it is a general observation and no improvement is listed for it.
C22_BelowBenchmarkIsImprovement ==
    ComparativeReturned =>
        \A key \in {"pitch_variability", "energy_variability", "pause_ratio"} :
            (Beyond(key, 20) /\ Descriptor(key) < Benchmark(key)) =>
                IF Benchmark(key) < thresholds[key].medium
                THEN /\ Compared("general", ComparedSentences[key].general)
                     /\ ~Compared("improvements", ComparedSentences[key].toward)
                ELSE Compared("improvements", ComparedSentences[key].toward)

\* C23: each of pitch, energy, speech rate and pause ratio is listed among
\* the matches exactly when |user - benchmark| / benchmark, 0 for a benchmark
\* of 0, is at most the tolerance (0.1 for the speech rate, 0.2 for the
\* others), and a matched dimension has no sentence in another list.
C23_MatchWithinTolerance ==
    ComparativeReturned =>
        \A key \in {"pitch_variability", "energy_variability", "speech_rate",
                    "pause_ratio"} :
            /\ Compared("matches", ComparedSentences[key].match)
                   <=> ~Beyond(key, Tolerance(key))
            /\ Compared("matches", ComparedSentences[key].match) =>
                   \A list \in {"general", "strengths", "improvements"} :
                       ~Compared(list, ComparedSentences[key].strength
                                       \cup ComparedSentences[key].overdone
                                       \cup ComparedSentences[key].toward
                                       \cup ComparedSentences[key].general)
            /\ \A list \in {"general", "strengths", "improvements"} :
                   ~Compared(list, ComparedSentences[key].match)

\* a pitch variation of 36.0 against a benchmark of 30.0, exactly at the
\* tolerance, is a match
C23_Witness ==
    /\ ComparativeReturned
    /\ Descriptor("pitch_variability") = 360
    /\ Benchmark("pitch_variability") = 300
    /\ Compared("matches", ComparedSentences.pitch_variability.match)

-----------------------------------------------------------------------------
\* Claims about the similarity of the comparative assessment, checked under
\* SpecFeedback

\* 1 - min(|user - benchmark| / benchmark, 1), or 1/2 for a benchmark of 0,
\* as an exact fraction
SymmetricFactor(user, benchmark) ==
    IF benchmark > 0
    THEN <<benchmark - Min(Abs(user - benchmark), benchmark), benchmark>>
    ELSE <<1, 2>>

EmotionFactor ==
    IF Get(fb_user, "primary_emotion", "neutral")
           = Get(fb_bench[1], "primary_emotion", "neutral")
    THEN <<1, 1>> ELSE <<1, 2>>

\* the mean of five factors as a percentage, the first being the factor of
\* the expressiveness score
MeanPercent(expressiveness) ==
    LET total ==
            FracAdd(expressiveness,
            FracAdd(SymmetricFactor(Descriptor("pitch_variability"),
                                    Benchmark("pitch_variability")),
            FracAdd(SymmetricFactor(Descriptor("energy_variability"),
                                    Benchmark("energy_variability")),
            FracAdd(SymmetricFactor(Descriptor("speech_rate"),
                                    Benchmark("speech_rate")),
                    EmotionFactor))))
    IN  Only({<<20 * sum[1], sum[2]>> : sum \in {total}})

\* the first sentence of the assessment for a percentage <<n, d>>
TierOfSimilarity(percent) ==
    "Your speech delivery "
    \o (IF percent[1] >= 80 * percent[2] THEN "is very similar to"
        ELSE IF percent[1] >= 60 * percent[2] THEN "has many similarities to"
        ELSE IF percent[1] >= 40 * percent[2] THEN "shares some characteristics with"
        ELSE "differs significantly from")
    \o " the benchmark recording ("
    \o ToString(RoundDiv(percent[1], percent[2])) \o "% match). "

\* the sentences that may follow it: one on expressiveness, one on the pace,
\* one on the emotions
ExpressivenessVerdicts ==
    {"Your expressiveness exceeds the benchmark. ",
     "Your expressiveness closely matches the benchmark. ",
     "The benchmark recording demonstrates higher expressiveness. "}
PaceMatchesWell == "Your speaking pace matches the benchmark well. "
PaceDiffers ==
    {"You speak faster than the benchmark. ",
     "You speak slower than the benchmark. "}
EmotionVerdicts ==
    {"Both you and the benchmark convey a "
         \o replace_underscore(Get(fb_user, "primary_emotion", "neutral"))
         \o " tone.",
     "You convey a "
         \o capitalize(replace_underscore(
                Get(fb_user, "primary_emotion", "neutral")))
         \o " tone, while the benchmark conveys a "
         \o capitalize(replace_underscore(
                Get(fb_bench[1], "primary_emotion", "neutral")))
         \o " tone."}
TailsWith(paces) ==
    {expressiveness \o pace \o emotion :
        expressiveness \in ExpressivenessVerdicts, pace \in paces,
        emotion \in EmotionVerdicts}
AssessmentTails == TailsWith({PaceMatchesWell} \cup PaceDiffers)

\* C24: the similarity of the comparative assessment is the mean of five
\* factors, each numeric one, that of the expressiveness score included,
\* being 1 - min(|user - benchmark| / benchmark, 1), or 0.5 for a benchmark
\* value of 0, and that of the emotion 1.0 or 0.5; the tier is chosen at
\* >= 80, >= 60, >= 40 of that percentage.
C24_SimilarityIsSymmetricMean ==
    ComparativeReturned =>
        fb_report.overall_assessment
            \in {TierOfSimilarity(percent) \o tail :
                    percent \in {MeanPercent(SymmetricFactor(
                                     Descriptor("expressiveness_score"),
                                     Benchmark("expressiveness_score")))},
                    tail \in AssessmentTails}

\* the same mean with min(user / benchmark, 1) as the factor of the
\* expressiveness score
OneSidedPercent ==
    MeanPercent(IF Benchmark("expressiveness_score") > 0
                THEN <<Min(Descriptor("expressiveness_score"),
                           Benchmark("expressiveness_score")),
                       Benchmark("expressiveness_score")>>
                ELSE <<1, 2>>)
SimilarityWithOneSidedExpressiveness ==
    ComparativeReturned =>
        fb_report.overall_assessment
            \in {TierOfSimilarity(percent) \o tail :
                    percent \in {OneSidedPercent}, tail \in AssessmentTails}

-----------------------------------------------------------------------------
\* Claims about the agreement of the sentences of one report, checked under
\* SpecFeedback

\* C28: in a report of generate, the specific feedback calls the speaking
\* pace well-balanced only when the suggestions hold no pace suggestion, and
\* calls the pauses effective or balanced only when the suggestions hold no
\* pause suggestion.
C28_PaceAndPauseMessagesAgree ==
    GenerateReturned =>
        /\ Listed(fb_report.specific_feedback,
                  "Your speaking pace was well-balanced, making it easy for listeners to follow.")
               => /\ ~Listed(fb_report.improvement_suggestions, FasterSuggestion)
                  /\ ~Listed(fb_report.improvement_suggestions, SlowerSuggestion)
        /\ (\/ Listed(fb_report.specific_feedback,
                      "You used pauses effectively to emphasize key points.")
            \/ Listed(fb_report.specific_feedback,
                      "Your use of pauses was balanced, creating a natural speaking rhythm."))
               => /\ ~Listed(fb_report.improvement_suggestions, MorePausesSuggestion)
                  /\ ~Listed(fb_report.improvement_suggestions, FewerPausesSuggestion)

\* the assessment of the report holds one of the pace sentences
AssessmentSays(paces) ==
    fb_report.overall_assessment
        \in {TierOfSimilarity(percent) \o tail :
                percent \in {OneSidedPercent}, tail \in TailsWith(paces)}

\* C29: in a comparative report, the assessment says that the speaking pace
\* matches the benchmark well only when the comparison holds no pace
\* improvement and no faster or slower sentence, and the comparison lists
\* the pace as closely matching only when the assessment does not say that
\* the user speaks faster or slower than the benchmark.
C29_PaceVerdictsAgree ==
    ComparativeReturned =>
        /\ AssessmentSays({PaceMatchesWell}) =>
               /\ ~Compared("improvements", ComparedSentences.speech_rate.overdone
                                            \cup ComparedSentences.speech_rate.toward)
               /\ ~Compared("general", ComparedSentences.speech_rate.general)
        /\ Compared("matches", ComparedSentences.speech_rate.match) =>
               ~AssessmentSays(PaceDiffers)

-----------------------------------------------------------------------------
\* Claims about the series analyze returns, checked under SpecAnalyze

\* the frame of the i-th voiced value of a pitch series
VoicedFrame(pitch, i) ==
    CHOOSE k \in 1..Len(pitch) :
        /\ pitch[k] # NaN
        /\ Cardinality({j \in 1..k : pitch[j] # NaN}) = i

\* C27: the returned 'pitch' and 'pitch_timestamps' have the same length,
\* and the i-th timestamp is the time of the frame that produced the i-th
\* pitch value, for every mix of voiced and unvoiced frames.
C27_PitchSeriesAligned ==
    (an_pc = "done" /\ an_results # None) =>
        /\ Len(an_results[1].pitch) = Len(an_results[1].pitch_timestamps)
        /\ \A i \in 1..Len(an_results[1].pitch) :
               /\ an_results[1].pitch[i] = an_locals.pitch[VoicedFrame(an_locals.pitch, i)]
               /\ an_results[1].pitch_timestamps[i]
                      = times_like(an_locals.pitch)[VoicedFrame(an_locals.pitch, i)]

\* C30: when transcribe_audio produced a failure sentinel (model not loaded,
\* or the transcription raised), the emotions of the analysis are the
\* default {"neutral": 1.0} with primary emotion "neutral", and the score is
\* computed with them: what the classifier makes of the sentinel is not used.
C30_SentinelGivesNeutralEmotion ==
    (an_pc = "done" /\ an_results # None
        /\ an_results[1].transcription \in TranscriptionSentinels) =>
        /\ an_results[1].emotions = NeutralOnly
        /\ an_results[1].primary_emotion = "neutral"
        /\ an_results[1].expressiveness_score = ScoreWithNeutral

-----------------------------------------------------------------------------
\* Two sessions, each constructing its SpeechAnalyzer and analyzing its own
\* recording, their steps interleaved in every order

Sessions == {1, 2}

\* what a session submits: the audio and what librosa extracts from it; a
\* corrupt recording cannot be decoded
Recordings ==
    UNION {{[audio |-> a, rec |-> r] :
               r \in {x \in Extracted(a) :
                         a = "corrupt" => x.raises /\ x.energy = <<>>}} :
              a \in {"speech", "silence", "corrupt"}}

\* what load_stt_model and load_emotion_classifier return, once and for
\* every later call (st.cache_resource): the objects, or None when loading
\* failed; a classifier is given by what it answers
LoadedModels ==
    {[model |-> m, emotion_classifier |-> e] :
        m \in {None, Some("whisper")},
        e \in {None} \cup {Some(output) : output \in ClassifierOutputs}}

\* a name that is the same for every call
NamedTemporaryFile_fixed(named) == 1

\* tempfile.NamedTemporaryFile(suffix='.wav', delete=False).name: a name no
\* other temporary file was given
NamedTemporaryFile(named) == Cardinality(named) + 1

\* the disk without a file
unlink(disk, path) == [name \in DOMAIN disk \ {path} |-> disk[name]]

ConcurrentInit ==
    /\ cc_calls \in
           {[c \in Sessions |->
                [pc |-> "new", self |-> <<>>, audio_file |-> recording[c],
                 temp_path |-> 0, loaded |-> None, transcription |-> None,
                 locals |-> <<>>, ret |-> "none", results |-> None,
                 touched |-> {}]] :
               recording \in {f \in [Sessions -> Recordings] : f[1] # f[2]}}
    /\ cc_disk = <<>>
    /\ cc_named = {}
    /\ cc_class = [model |-> None, emotion_classifier |-> None]
    /\ cc_cache \in LoadedModels
    /\ ScoreIdle
    /\ FeedbackIdle
    /\ AnalyzeIdle
    /\ TextIdle
    /\ PageIdle
    /\ FramesIdle

\* SpeechAnalyzer(): init_stt_model and init_emotion_model assign what the
\* cached loaders return to the class and to the instance
Construct(c) ==
    /\ cc_calls[c].pc = "new"
    /\ cc_class' = cc_cache
    /\ cc_calls' = [cc_calls EXCEPT ![c].pc = "ready", ![c].self = cc_cache]
    /\ UNCHANGED <<cc_disk, cc_named, cc_cache>>

\* analyze, lines 118-120: the temporary file is created and the input
\* bytes are written into it
CcEnter(c) ==
    /\ cc_calls[c].pc = "ready"
    /\ \E name \in {NamedTemporaryFile(cc_named)} :
           /\ cc_named' = cc_named \cup {name}
           /\ cc_disk' = (name :> cc_calls[c].audio_file) @@ cc_disk
           /\ cc_calls' = [cc_calls EXCEPT ![c].pc = "try",
                                           ![c].temp_path = name,
                                           ![c].touched = @ \cup {name}]
    /\ UNCHANGED <<cc_class, cc_cache>>

\* lines 124-132: AudioSegment.from_file(temp_path) and export(temp_path)
\* rewrite the file in place; a failure is only warned about
CcConvert(c) ==
    /\ cc_calls[c].pc = "try"
    /\ cc_calls' = [cc_calls EXCEPT ![c].pc = "converted",
                                    ![c].touched = @ \cup {cc_calls[c].temp_path}]
    /\ UNCHANGED <<cc_disk, cc_named, cc_class, cc_cache>>

\* lines 135-138: librosa.load(temp_path) raises for a file that is missing
\* or cannot be decoded
CcLoad(c) ==
    /\ cc_calls[c].pc = "converted"
    /\ LET path == cc_calls[c].temp_path
       IN  IF path \in DOMAIN cc_disk /\ cc_disk[path].audio # "corrupt"
           THEN cc_calls' = [cc_calls EXCEPT ![c].pc = "loaded",
                                             ![c].loaded = Some(cc_disk[path]),
                                             ![c].touched = @ \cup {path}]
           ELSE cc_calls' = [cc_calls EXCEPT ![c].pc = "except",
                                             ![c].touched = @ \cup {path}]
    /\ UNCHANGED <<cc_disk, cc_named, cc_class, cc_cache>>

\* line 141: transcribe_audio(temp_path) loads the file once more, inside
\* its own try
CcTranscribe(c) ==
    /\ cc_calls[c].pc = "loaded"
    /\ LET path == cc_calls[c].temp_path
           loaded == cc_calls[c].self.model # None
       IN  cc_calls' =
               [cc_calls EXCEPT
                   ![c].pc = "transcribed",
                   ![c].transcription =
                       Some(IF path \in DOMAIN cc_disk
                            THEN transcribe_audio(loaded, TRUE,
                                                  Heard(cc_disk[path].audio))
                            ELSE transcribe_audio(loaded, FALSE, <<>>)),
                   ![c].touched = IF loaded THEN @ \cup {path} ELSE @]
    /\ UNCHANGED <<cc_disk, cc_named, cc_class, cc_cache>>

\* lines 143-189, from the audio that was loaded
CcExtractFeatures(c) ==
    /\ cc_calls[c].pc = "transcribed"
    /\ cc_calls' = [cc_calls EXCEPT
                       ![c].pc = "features",
                       ![c].locals = features(cc_calls[c].loaded[1].rec)]
    /\ UNCHANGED <<cc_disk, cc_named, cc_class, cc_cache>>

\* the emotions and the score of a transcription, for the analyzer's
\* classifier and the descriptors computed
scored(self, transcription, locals) ==
    LET classifier == self.emotion_classifier
        detected == detect_emotion(classifier # None, TRUE, transcription,
                                   IF classifier # None THEN classifier[1]
                                   ELSE NeutralOnly)
    IN  [emotions |-> detected[1],
         primary_emotion |-> detected[2],
         expressiveness_score |->
             calculate_expressiveness_score(
                 locals.pitch_variability, locals.energy_variability,
                 locals.speech_rate, locals.pause_ratio,
                 emotion_confidence(detected[1], detected[2]))]
        @@ locals

\* lines 191-201
CcDetectEmotionAndScore(c) ==
    /\ cc_calls[c].pc = "features"
    /\ cc_calls' = [cc_calls EXCEPT
                       ![c].pc = "scored",
                       ![c].locals = scored(cc_calls[c].self,
                                            cc_calls[c].transcription[1],
                                            cc_calls[c].locals)]
    /\ UNCHANGED <<cc_disk, cc_named, cc_class, cc_cache>>

\* line 204: os.unlink(temp_path) raises FileNotFoundError for a file that
\* is gone
CcCleanUp(c) ==
    /\ cc_calls[c].pc = "scored"
    /\ LET path == cc_calls[c].temp_path
       IN  /\ cc_disk' = unlink(cc_disk, path)
           /\ cc_calls' = [cc_calls EXCEPT
                              ![c].pc = IF path \in DOMAIN cc_disk
                                        THEN "unlinked" ELSE "except",
                              ![c].touched = @ \cup {path}]
    /\ UNCHANGED <<cc_named, cc_class, cc_cache>>

\* lines 206-223
CcReturnResults(c) ==
    /\ cc_calls[c].pc = "unlinked"
    /\ cc_calls' = [cc_calls EXCEPT
                       ![c].pc = "done",
                       ![c].ret = "dict",
                       ![c].results = Some(results(cc_calls[c].locals,
                                                   cc_calls[c].transcription[1]))]
    /\ UNCHANGED <<cc_disk, cc_named, cc_class, cc_cache>>

\* lines 225-228: st.error, os.unlink(temp_path), return None
CcHandleError(c) ==
    /\ cc_calls[c].pc = "except"
    /\ LET path == cc_calls[c].temp_path
       IN  /\ cc_disk' = unlink(cc_disk, path)
           /\ cc_calls' = [cc_calls EXCEPT
                              ![c].pc = "done",
                              ![c].ret = IF path \in DOMAIN cc_disk
                                         THEN "None" ELSE "raised",
                              ![c].touched = @ \cup {path}]
    /\ UNCHANGED <<cc_named, cc_class, cc_cache>>

ConcurrentNext ==
    /\ \E c \in Sessions :
           \/ Construct(c)
           \/ CcEnter(c)
           \/ CcConvert(c)
           \/ CcLoad(c)
           \/ CcTranscribe(c)
           \/ CcExtractFeatures(c)
           \/ CcDetectEmotionAndScore(c)
           \/ CcCleanUp(c)
           \/ CcReturnResults(c)
           \/ CcHandleError(c)
    /\ UNCHANGED <<sc_vars, fb_vars, an_vars, tx_vars, pg_vars, fr_vars>>

SpecConcurrent == ConcurrentInit /\ [][ConcurrentNext]_vars

-----------------------------------------------------------------------------
\* Pause and emphasis detection on its own: analyze, lines 179-188, applied
\* to every short energy series

MaxFrames == 3

\* RMS energies per frame, in 1/1000: silence, values around 1% and 80% of
\* the larger ones
EnergyLevels == {0, 1, 2, 79, 80, 81, 100, 200}

EnergySeries ==
    UNION {[1..n -> EnergyLevels] : n \in 1..MaxFrames}

FramesInit ==
    /\ fr_energy \in EnergySeries
    /\ fr_measured = None
    /\ ScoreIdle
    /\ FeedbackIdle
    /\ AnalyzeIdle
    /\ TextIdle
    /\ PageIdle
    /\ ConcurrentIdle

\* pause_frames = np.sum(is_pause); pause_ratio = pause_frames / len(energy),
\* and the same for the emphasis; the ratios as <<numerator, denominator>>
MeasureFrames ==
    /\ fr_measured = None
    /\ fr_measured' =
           Some([is_pause |-> is_pause(fr_energy),
                 is_emphasis |-> is_emphasis(fr_energy),
                 pause_ratio |->
                     <<Cardinality(is_pause(fr_energy)), Len(fr_energy)>>,
                 emphasis_ratio |->
                     <<Cardinality(is_emphasis(fr_energy)), Len(fr_energy)>>])
    /\ UNCHANGED <<fr_energy, sc_vars, fb_vars, an_vars, tx_vars, pg_vars,
                   cc_vars>>

FramesNext == MeasureFrames

SpecFrames == FramesInit /\ [][FramesNext]_vars

\* a fraction <<n, d>> lies in [0, 1]
InUnitInterval(fraction) ==
    0 <= fraction[1] /\ fraction[1] <= fraction[2] /\ fraction[2] > 0

\* C26: for every energy series that is not empty the pause frames and the
\* emphasis frames are disjoint sets of frames of the series, so both ratios
\* lie in [0, 1] and their sum is at most 1; the frame of the maximum is not
\* a pause frame, so the pause ratio is below 1; for an all-zero series both
\* ratios are 0.
C26_PauseAndEmphasisDisjoint ==
    fr_measured # None =>
        /\ fr_measured[1].is_pause \subseteq DOMAIN fr_energy
        /\ fr_measured[1].is_emphasis \subseteq DOMAIN fr_energy
        /\ fr_measured[1].is_pause \cap fr_measured[1].is_emphasis = {}
        /\ InUnitInterval(fr_measured[1].pause_ratio)
        /\ InUnitInterval(fr_measured[1].emphasis_ratio)
        /\ fr_measured[1].pause_ratio[2] = Len(fr_energy)
        /\ fr_measured[1].emphasis_ratio[2] = Len(fr_energy)
        /\ fr_measured[1].pause_ratio[1] + fr_measured[1].emphasis_ratio[1]
               <= Len(fr_energy)
        /\ \A i \in DOMAIN fr_energy :
               (\A j \in DOMAIN fr_energy : fr_energy[j] <= fr_energy[i])
                   => i \notin fr_measured[1].is_pause
        /\ fr_measured[1].pause_ratio[1] < Len(fr_energy)
        /\ (\A i \in DOMAIN fr_energy : fr_energy[i] = 0)
               => /\ fr_measured[1].pause_ratio[1] = 0
                  /\ fr_measured[1].emphasis_ratio[1] = 0

\* a series with a pause frame, an emphasis frame and a frame that is
\* neither
C26_Witness ==
    /\ fr_measured # None
    /\ fr_energy = <<1, 200, 100>>
    /\ fr_measured[1].is_pause = {1}
    /\ fr_measured[1].is_emphasis = {2}

-----------------------------------------------------------------------------
\* Claims about concurrent analyses, checked under SpecConcurrent

\* what analyze returns for a recording when nothing else runs: how it
\* ended and the dict
analyze_alone(self, recording) ==
    IF recording.audio = "corrupt" THEN <<"None", None>>
    ELSE LET transcription ==
                 transcribe_audio(self.model # None, TRUE, Heard(recording.audio))
         IN  <<"dict",
               Some(results(scored(self, transcription, features(recording.rec)),
                            transcription))>>

\* a session is inside analyze
Analyzing(c) == cc_calls[c].pc \notin {"new", "ready", "done"}

\* C25: under every interleaving of two analyze calls on different
\* recordings each call returns what it returns when run alone, neither
\* call reads or deletes the other's temporary file, and the class-level
\* model references are not modified while an analysis runs.
C25_ConcurrentAnalysesIndependent ==
    /\ \A c \in Sessions :
           cc_calls[c].pc = "done" =>
               <<cc_calls[c].ret, cc_calls[c].results>>
                   = analyze_alone(cc_cache, cc_calls[c].audio_file)
    /\ \A c \in Sessions : \A other \in Sessions \ {c} :
           /\ cc_calls[c].touched \subseteq {cc_calls[c].temp_path}
           /\ cc_calls[other].temp_path \notin cc_calls[c].touched
    /\ \A c \in Sessions :
           cc_calls[c].pc \in {"try", "converted", "loaded", "transcribed",
                               "features", "scored"}
               => /\ cc_calls[c].temp_path \in DOMAIN cc_disk
                  /\ cc_disk[cc_calls[c].temp_path] = cc_calls[c].audio_file
    /\ (\E c \in Sessions : Analyzing(c)) => cc_class = cc_cache

\* the first session's call ran from its start to its end while the second
\* session's call, entered before it, was still going on
C25_Witness ==
    /\ cc_calls[1].pc = "done" /\ cc_calls[1].ret = "dict"
    /\ cc_calls[1].temp_path = 2
    /\ cc_calls[2].temp_path = 1
    /\ cc_calls[2].pc = "loaded"
    /\ cc_calls[2].temp_path \in DOMAIN cc_disk

=============================================================================
